---- MODULE Spec2Model ----
(***************************************************************************)
(* Conversation turn orchestration of src/Start.py: the Streamlit script   *)
(* run (main), the chat input handler, the response generation with its    *)
(* stream aggregation loop and its tool dispatch loop, and the reset.      *)
(*                                                                         *)
(* Text is a sequence of tokens: one-character strings for streamed text   *)
(* and argument text, one token for each fixed phrase of the source.       *)
(***************************************************************************)
EXTENDS Integers, Sequences, FiniteSets, TLC

\* Bounds of the exploration.
MaxChunks == 2        \* chunks of a provider stream, whole invocations per chunk
MaxFragments == 3     \* chunks of a provider stream, invocations in fragments
MaxTurns == 2         \* user turns in the conversation
MaxUploads == 2
MaxStored == 3
MaxApplications == 2
MaxResults == 6       \* document uploads in the conversation

VARIABLES
    messages,               \* st.session_state.messages
    thinking,               \* st.session_state["thinking"]
    llm_chat_model,         \* st.session_state["llm_chat_model"]
    language,               \* st.session_state["language"]
    last_image_prompt,      \* st.session_state["last_image_prompt"]
    system_prompt,          \* st.session_state.system_prompt
    llm_temperature,        \* st.session_state["llm_temperature"]
    image_model,            \* st.session_state["image_model"]
    image_size,             \* st.session_state["image_size"]
    image_quality,          \* st.session_state["image_quality"]
    document_mode,          \* st.session_state.document_mode
    document_index,         \* st.session_state.document_index
    uploaded_documents,     \* st.session_state.uploaded_documents
    document_processing,    \* st.session_state.document_processing
    original_user_question, \* st.session_state.original_user_question
    pc,                     \* position of the script run inside process_assistant_response
    processed_messages,     \* local of generate_response: what prepare_messages returned
    full_response,          \* local of process_llm_request
    collected_tool_calls,   \* local of process_llm_request (insertion-ordered dict)
    tool_calls,             \* value returned by process_llm_request
    tc_pos,                 \* position of the for loop over tool_calls
    placeholder,            \* what message_placeholder currently shows
    stream,                 \* chunks the provider has delivered in this turn
    executed,               \* tools executed in this turn, in call order
    gate_log,               \* what query_document did in this turn, in call order
    service_calls,          \* the requests sent to the providers in this turn
    provider_calls,         \* client.chat.completions.create calls in this turn
    raised,                 \* whether generate_response's except branch ran
    turn_base               \* Len(messages) when generate_response was entered

documents ==
    << document_mode, document_index, uploaded_documents, document_processing,
       original_user_question >>

\* the settings render_settings edits, besides the system prompt
settings == << llm_temperature, image_model, image_size, image_quality >>

vars == << messages, thinking, llm_chat_model, language, last_image_prompt,
           system_prompt, settings, documents, pc, processed_messages,
           full_response, collected_tool_calls, tool_calls, tc_pos, placeholder,
           stream, executed, gate_log, service_calls, provider_calls, raised,
           turn_base >>

-----------------------------------------------------------------------------
\* Text helpers.

IsPrefix(s, t) ==
    /\ Len(s) <= Len(t)
    /\ \A i \in 1..Len(s) : s[i] = t[i]

\* str.strip() is falsy exactly when the text holds only whitespace.
IsBlank(s) == \A i \in 1..Len(s) : s[i] = " "

Cursor == "<cursor>"

-----------------------------------------------------------------------------
\* Models and provider branches.

Models ==
    { "Gemma2 9B", "Deep Seek R1 70B", "Llama 4 Scout", "OpenAI GPT-4.1", "OpenAI o4-mini" }

\* "OpenAI" in st.session_state["llm_chat_model"]
IsOpenAI(m) == m \in { "OpenAI GPT-4.1", "OpenAI o4-mini" }

Languages == { "Svenska", "English" }

-----------------------------------------------------------------------------
\* Stream aggregation (process_llm_request, the loop over the stream).

NewEntry(id) == [ id |-> id, name |-> "", arguments |-> << >> ]

HasEntry(coll, id) == \E i \in 1..Len(coll) : coll[i].id = id

\* if tool_call_id not in collected_tool_calls: collected_tool_calls[id] = {...}
EnsureEntry(coll, id) == IF HasEntry(coll, id) THEN coll ELSE Append(coll, NewEntry(id))

KeepFirstName(old, new) == IF old = "" THEN new ELSE old

\* if tool_call.function.name: entry["name"] = tool_call.function.name
UpdateName(old, new) == IF new # "" THEN new ELSE old

ReplaceArguments(old, piece) == IF piece # << >> THEN piece ELSE old

\* if tool_call.function.arguments: entry["arguments"] += tool_call.function.arguments
UpdateArguments(old, piece) == IF piece # << >> THEN old \o piece ELSE old

ApplyToolDeltaUngrouped(coll, d) ==
    LET c1 == EnsureEntry(coll, d.index)
    IN  [ i \in 1..Len(c1) |->
            [ c1[i] EXCEPT !.name = UpdateName(@, d.name),
                           !.arguments = UpdateArguments(@, d.arguments) ] ]

ApplyToolDelta(coll, d) ==
    LET c1 == EnsureEntry(coll, d.index)
    IN  [ i \in 1..Len(c1) |->
            IF c1[i].id = d.index
            THEN [ c1[i] EXCEPT !.name = UpdateName(@, d.name),
                                !.arguments = UpdateArguments(@, d.arguments) ]
            ELSE c1[i] ]

\* for tool_call in delta.tool_calls: ...
RECURSIVE ApplyToolDeltas(_, _)
ApplyToolDeltas(coll, ds) ==
    IF ds = << >> THEN coll
    ELSE ApplyToolDeltas(ApplyToolDelta(coll, Head(ds)), Tail(ds))

PrependText(text, chunk) == IF chunk.has_content THEN chunk.content \o text ELSE text

\* if delta.content is not None: full_response += content
AppendText(text, chunk) == IF chunk.has_content THEN text \o chunk.content ELSE text

ShowAlways(shown, text, chunk) == text \o << Cursor >>

\* message_placeholder.markdown(full_response + cursor), only under the same test
Show(shown, text, chunk) == IF chunk.has_content THEN text \o << Cursor >> ELSE shown

\* The entries by ascending index.
RECURSIVE ById(_)
ById(coll) ==
    IF coll = << >> THEN << >>
    ELSE LET m == CHOOSE i \in 1..Len(coll) : \A j \in 1..Len(coll) : coll[i].id <= coll[j].id
         IN  << coll[m] >> \o ById(SubSeq(coll, 1, m - 1) \o SubSeq(coll, m + 1, Len(coll)))

\* A list of the invocations in the order of their indices.
CompletedInvocationsByIndex(coll) ==
    [ i \in 1..Len(coll) |-> [ name |-> ById(coll)[i].name, arguments |-> ById(coll)[i].arguments ] ]

\* tool_calls = list(collected_tool_calls.values()) when the dict is non-empty
CompletedInvocations(coll) ==
    [ i \in 1..Len(coll) |-> [ name |-> coll[i].name, arguments |-> coll[i].arguments ] ]

-----------------------------------------------------------------------------
\* Tool arguments. The argument text of a tool call is a sequence of tokens:
\* "{" and "}" and one token per member of the JSON object.

\* "prompt": ..., "query": ..., "is_modification": true, "is_modification": false,
\* "size": "512x512", "size": "1792x1024"
MemberTokens == { "p", "q", "m", "n", "s512", "s1792" }

PromptText == << "c" >>              \* the value of the member "prompt"
QueryText == << "w" >>               \* the value of the member "query"

\* json.loads(tool_call["arguments"]): an object, or an error
ParseJson(text) ==
    IF /\ Len(text) >= 2
       /\ text[1] = "{"
       /\ text[Len(text)] = "}"
       /\ \A i \in 2..(Len(text) - 1) : text[i] \in MemberTokens
    THEN [ ok |-> TRUE, keys |-> { text[i] : i \in 2..(Len(text) - 1) } ]
    ELSE [ ok |-> FALSE, keys |-> { } ]

-----------------------------------------------------------------------------
\* Tool execution (execute_image_generation_tool, execute_web_search_tool).

ImageUrl == << "<image_url>" >>

\* An effective prompt that builds on the prior prompt whatever the flag says.
EffectivePromptAlwaysModifies(keys, prior) ==
    IF prior # << >>
    THEN << "Based on this previous idea: " >> \o prior \o << ", now " >> \o PromptText
    ELSE PromptText

\* final_prompt of execute_image_generation_tool
EffectivePrompt(keys, prior) ==
    IF "m" \in keys /\ prior # << >>
    THEN << "Based on this previous idea: " >> \o prior \o << ", now " >> \o PromptText
    ELSE PromptText

\* requested_size of execute_image_generation_tool
RequestedSize(keys, default_size) ==
    IF "s512" \in keys THEN "512x512"
    ELSE IF "s1792" \in keys THEN "1792x1024"
    ELSE default_size

ImageModels == { "dall-e-2", "dall-e-3", "gpt-image-1" }

ImageQualities == { "medium", "high" }

\* valid_sizes of the dall-e-2 branch
ValidSizes == { "256x256", "512x512", "1024x1024" }

\* A dall-e-2 branch that passes the requested size on.
RequestedSizeAsIs(requested_size) == requested_size

\* size of the dall-e-2 branch
SupportedSize(requested_size) ==
    IF requested_size \in ValidSizes THEN requested_size ELSE "1024x1024"

\* The arguments of client.images.generate, by image model.
ImageRequest(tool_call, prior, model, default_size, default_quality) ==
    LET keys == ParseJson(tool_call.arguments).keys
        requested_size == RequestedSize(keys, default_size)
    IN  [ service |-> "images.generate",
          model |-> model,
          prompt |-> EffectivePrompt(keys, prior),
          size |-> IF model = "dall-e-2" THEN SupportedSize(requested_size)
                   ELSE requested_size,
          quality |-> IF model = "gpt-image-1" THEN default_quality ELSE "",
          style |-> IF model = "dall-e-3" THEN "vivid" ELSE "" ]

\* Whether execute_image_generation_tool gets as far as client.images.generate.
ReachesImageService(tool_call, model) ==
    LET arguments == ParseJson(tool_call.arguments)
    IN  arguments.ok /\ "p" \in arguments.keys /\ model \in ImageModels

\* An execution that stores the prompt before it calls the image service.
ExecuteImageGenerationToolStoresEarly(tool_call, prior, model, svc) ==
    LET arguments == ParseJson(tool_call.arguments)
        final_prompt == EffectivePrompt(arguments.keys, prior)
        error == IF ~arguments.ok THEN "<json error>"
                 ELSE IF "p" \notin arguments.keys THEN "'prompt'"
                 ELSE IF model \notin ImageModels THEN "<image_url unbound>"
                 ELSE IF svc # "ok" THEN "<image service error>"
                 ELSE ""
    IN  IF error = ""
        THEN [ image_url |-> ImageUrl, final_prompt |-> final_prompt,
               last_image_prompt |-> final_prompt, outcome |-> "ok" ]
        ELSE [ image_url |-> << >>, final_prompt |-> << >>,
               last_image_prompt |-> IF error \in { "<image service error>", "<image_url unbound>" }
                                     THEN final_prompt
                                     ELSE prior,
               outcome |-> error ]

\* The result (image_url, final_prompt) and the image context afterwards, for the
\* outcome svc of client.images.generate. Every exception ends in (None, "").
\* With an image model that is none of the three no branch binds image_url:
\* the prompt is stored, then the return statement raises.
ExecuteImageGenerationTool(tool_call, prior, model, svc) ==
    LET arguments == ParseJson(tool_call.arguments)
        final_prompt == EffectivePrompt(arguments.keys, prior)
        error == IF ~arguments.ok THEN "<json error>"
                 ELSE IF "p" \notin arguments.keys THEN "'prompt'"
                 ELSE IF model \notin ImageModels THEN "<image_url unbound>"
                 ELSE IF svc # "ok" THEN "<image service error>"
                 ELSE ""
    IN  IF error = ""
        THEN [ image_url |-> ImageUrl, final_prompt |-> final_prompt,
               last_image_prompt |-> final_prompt, outcome |-> "ok" ]
        ELSE [ image_url |-> << >>, final_prompt |-> << >>,
               last_image_prompt |-> IF error = "<image_url unbound>" THEN final_prompt
                                     ELSE prior,
               outcome |-> error ]

\* A request that sends the query as the model wrote it.
SearchRequestUnchanged(lang) == [ service |-> "search", query |-> QueryText ]

\* The arguments of client.search: the query, with the language instruction.
SearchRequest(lang) ==
    [ service |-> "search",
      query |-> IF lang = "Svenska" THEN QueryText \o << " (answer in Swedish)" >>
                ELSE QueryText ]

\* Whether execute_web_search_tool gets as far as client.search.
ReachesSearchService(tool_call) ==
    LET arguments == ParseJson(tool_call.arguments)
    IN  arguments.ok /\ "q" \in arguments.keys

Titles == << "t1", "t2", "t3", "t4", "t5", "t6", "t7", "t8" >>

Urls == << "u1", "u2", "u3", "u4", "u5", "u6", "u7", "u8" >>

\* The n entries of response["results"]; the entry at position bad, if any,
\* lacks the member missing.
SearchResults(n, bad, missing) ==
    [ i \in 1..n |-> [ title |-> Titles[i], url |-> Urls[i],
                       keys |-> IF i = bad THEN { "title", "url" } \ { missing }
                                ELSE { "title", "url" } ] ]

\* What client.search does: it raises, or returns an answer (none: << >>) and results.
SearchResponse(answer, results) == [ raises |-> FALSE, answer |-> answer, results |-> results ]

SearchFails == [ raises |-> TRUE, answer |-> << >>, results |-> << >> ]

PlainResponse == SearchResponse(<< >>, << >>)

\* The search service in the conversation: it fails, or answers with nothing to cite.
SearchOutcomes == { PlainResponse, SearchFails }

\* A slice that takes every result.
AllResults(results) == results

\* response.get("results", [])[:5]
TopResults(results) == SubSeq(results, 1, IF Len(results) < 5 THEN Len(results) ELSE 5)

\* The text of the exception execute_web_search_tool catches, or "" when none.
SearchError(tool_call, svc) ==
    LET arguments == ParseJson(tool_call.arguments)
        cited == TopResults(svc.results)
    IN  IF ~arguments.ok THEN "<json error>"
        ELSE IF "q" \notin arguments.keys THEN "'query'"
        ELSE IF svc.raises THEN "<search service error>"
        ELSE IF \E i \in 1..Len(cited) : "title" \notin cited[i].keys THEN "'title'"
        ELSE IF \E i \in 1..Len(cited) : "url" \notin cited[i].keys THEN "'url'"
        ELSE ""

SearchApology(lang, err) ==
    IF lang = "Svenska"
    THEN << "Jag stotte pa ett fel nar jag forsokte soka pa webben: ", err, ". Vanligen forsok igen." >>
    ELSE << "I encountered an error while trying to search the web: ", err, ". Please try again." >>

Ordinals == << "1", "2", "3", "4", "5", "6", "7", "8" >>

\* The lines "idx. [title](url)" of the sources, in the order of the results.
RECURSIVE Citations(_, _)
Citations(cited, idx) ==
    IF cited = << >> THEN << >>
    ELSE << Ordinals[idx], ". [", Head(cited).title, "](", Head(cited).url, ")" >>
         \o Citations(Tail(cited), idx + 1)

\* result of execute_web_search_tool: the heading with the query, the answer if
\* there is one, the sources label, the citations
FormatSearchResult(lang, response) ==
    (IF lang = "Svenska" THEN << "**Sokresultat:** '" >> ELSE << "**Search Results:** '" >>)
    \o QueryText \o << "'" >>
    \o (IF response.answer # << >> THEN response.answer ELSE << >>)
    \o (IF lang = "Svenska" THEN << "**Kallor:**" >> ELSE << "**Sources:**" >>)
    \o Citations(TopResults(response.results), 1)

SearchResult(lang) == FormatSearchResult(lang, PlainResponse)

\* A search tool that apologises in English whatever the language.
ExecuteWebSearchToolEnglishApology(tool_call, lang, svc) ==
    LET err == SearchError(tool_call, svc)
    IN  IF err = ""
        THEN [ text |-> FormatSearchResult(lang, svc), outcome |-> "ok" ]
        ELSE [ text |-> SearchApology("English", err), outcome |-> err ]

\* The string execute_web_search_tool returns (text), and how the call went.
ExecuteWebSearchTool(tool_call, lang, svc) ==
    LET err == SearchError(tool_call, svc)
    IN  IF err = ""
        THEN [ text |-> FormatSearchResult(lang, svc), outcome |-> "ok" ]
        ELSE [ text |-> SearchApology(lang, err), outcome |-> err ]

-----------------------------------------------------------------------------
\* Conversation turns.

Turn(role, content) ==
    [ role |-> role, content |-> content, image_files |-> << >>,
      display_images |-> << >>, is_system_message |-> FALSE ]

Greeting == << "<chat_hello>" >>

FallbackApology ==
    << "I'm unable to process the request at this time. Is there anything else I can help with?" >>

ImageTurnContent(final_prompt) ==
    << "I generated an image based on your request: \"" >> \o final_prompt \o << "\"" >>

ImageGenerationError == "<image_generation_error>"

UserText == << "u" >>

\* turns the user typed or attached images to
NumUserTurns(msgs) ==
    Cardinality({ i \in 1..Len(msgs) : msgs[i].role = "user" /\ ~msgs[i].is_system_message })

\* A clean-up that leaves the image files where they are.
KeepImages(msgs) == msgs

\* cleanup_image_data_after_processing
Cleanup(msgs) ==
    [ i \in 1..Len(msgs) |->
        IF msgs[i].image_files # << >>
        THEN [ msgs[i] EXCEPT
                 !.display_images = IF @ = << >> THEN msgs[i].image_files ELSE @,
                 !.image_files = << >> ]
        ELSE msgs[i] ]

-----------------------------------------------------------------------------
\* Language-specific texts (load_language_settings).

ChatPrompt(lang) == << "<chat_prompt>", lang >>

DocPrompt(lang) == << "<doc_prompt>", lang >>

DocumentModeNotification == << "<document_mode_notification>" >>

-----------------------------------------------------------------------------
\* User turns with attachments.

ImageFiles == << "<image 1>", "<image 2>" >>

\* the message handle_chat_input builds from the text and the image files
UserTurn(text, image_files) ==
    [ Turn("user", IF text = << >> /\ image_files # << >>
                   THEN << "I've uploaded an image." >>
                   ELSE text)
      EXCEPT !.image_files = image_files ]

\* the turn that records an upload; doc_names are the names of all document files
UploadTurn(doc_names) ==
    [ Turn("user", << "I've uploaded the following document(s): " >> \o doc_names \o << "." >>)
      EXCEPT !.is_system_message = TRUE ]

NumUploads(msgs) == Cardinality({ i \in 1..Len(msgs) : msgs[i].is_system_message })

-----------------------------------------------------------------------------
\* Documents and the retrieval index. A document is named by one token; the
\* index is the sequence of the documents it was built from, << >> when absent.

Documents == { "r", "x" }

\* the file still exists and SimpleDirectoryReader loads something from it
Readable(doc) == doc = "r"

\* The files of one chat input that are documents.
DocInputs == { << "r" >>, << "x" >> }

RECURSIVE Saved(_, _, _)
\* process_document over the document files: those of ok are appended
Saved(files, ok, k) ==
    IF k > Len(files) THEN << >>
    ELSE (IF k \in ok THEN << files[k] >> ELSE << >>) \o Saved(files, ok, k + 1)

RECURSIVE LoadAll(_)
\* documents.extend(docs) over the pending documents
LoadAll(pending) ==
    IF pending = << >> THEN << >>
    ELSE (IF Readable(Head(pending)) THEN << Head(pending) >> ELSE << >>)
         \o LoadAll(Tail(pending))

\* A create_document_index that leaves the pending list as it is.
CreateDocumentIndexKeepsPending(pending, svc) ==
    LET docs == LoadAll(pending)
    IN  IF pending = << >> \/ svc # "ok" \/ docs = << >>
        THEN [ index |-> << >>, pending |-> pending, cleared |-> TRUE ]
        ELSE [ index |-> docs, pending |-> pending, cleared |-> FALSE ]

\* create_document_index: the index returned (<< >> for None), the pending list
\* afterwards and whether document_processing was cleared; svc is "error" when
\* reading, indexing or deleting the files raises.
CreateDocumentIndex(pending, svc) ==
    LET docs == LoadAll(pending)
    IN  IF pending = << >> \/ svc # "ok" \/ docs = << >>
        THEN [ index |-> << >>, pending |-> pending, cleared |-> TRUE ]
        ELSE [ index |-> docs, pending |-> << >>, cleared |-> FALSE ]

NoDocumentsMessage ==
    << "I don't have any documents to reference. Please upload a document first." >>

NotUnderstoodMessage == << "I couldn't understand your question. Please try again." >>

DocumentAnswerText == << "<response.response>" >>

\* A query_document that queries whether or not there is an index.
QueryDocumentWithoutIndex(index, pending, processing, svc_index, svc_query) ==
    LET c == IF index = << >>
             THEN CreateDocumentIndex(pending, svc_index)
             ELSE [ index |-> index, pending |-> pending, cleared |-> FALSE ]
        built == IF index # << >> THEN << >>
                 ELSE IF c.index # << >> THEN << "build" >> ELSE << "nobuild" >>
    IN  [ index |-> c.index,
          pending |-> c.pending,
          processing |-> processing /\ ~c.cleared,
          answer |-> IF svc_query = "ok" THEN DocumentAnswerText ELSE << >>,
          log |-> built \o << "query" >>,
          raised |-> svc_query # "ok" ]

\* query_document: the state of the index and of the pending list afterwards,
\* the answer, what was done (log) and whether query_engine.query raised.
QueryDocument(index, pending, processing, svc_index, svc_query) ==
    LET c == IF index = << >>
             THEN CreateDocumentIndex(pending, svc_index)
             ELSE [ index |-> index, pending |-> pending, cleared |-> FALSE ]
        built == IF index # << >> THEN << >>
                 ELSE IF c.index # << >> THEN << "build" >> ELSE << "nobuild" >>
    IN  [ index |-> c.index,
          pending |-> c.pending,
          processing |-> processing /\ ~c.cleared,
          answer |-> IF c.index = << >> THEN NoDocumentsMessage
                     ELSE IF svc_query = "ok" THEN DocumentAnswerText ELSE << >>,
          log |-> built \o (IF c.index # << >> THEN << "query" >> ELSE << >>),
          raised |-> c.index # << >> /\ svc_query # "ok" ]

-----------------------------------------------------------------------------
\* The provider payload (prepare_messages).

\* is_vision_capable_model
IsVisionCapable(m) == IsOpenAI(m) \/ m = "Llama 4 Scout"

Processed(role, content, images) == [ role |-> role, content |-> content, images |-> images ]

\* encode_image_for_api, in the data URL of an image segment
ImageSegment(img_file) == << "data:image/jpeg;base64,", "base64", img_file >>

\* format_multimodal_message: the text segment is content, then one image
\* segment per image file
FormatMultimodalMessage(message) ==
    Processed(message.role, message.content,
              [ k \in 1..Len(message.image_files) |-> ImageSegment(message.image_files[k]) ])

RECURSIVE TypedTurns(_)
TypedTurns(msgs) ==
    IF msgs = << >> THEN << >>
    ELSE (IF Head(msgs).is_system_message THEN << >>
          ELSE << Processed(Head(msgs).role, Head(msgs).content, << >>) >>)
         \o TypedTurns(Tail(msgs))

\* A preparation that leaves out the turns marked is_system_message.
PrepareMessagesSkipsHidden(msgs, model, prompt) ==
    << Processed("system", prompt, << >>) >> \o TypedTurns(msgs)

\* A preparation that formats image turns for every model.
PrepareMessagesAnyModel(msgs, model, prompt) ==
    << Processed("system", prompt, << >>) >>
    \o [ i \in 1..Len(msgs) |->
           IF msgs[i].role = "user" THEN FormatMultimodalMessage(msgs[i])
           ELSE Processed("assistant", msgs[i].content, << >>) ]

\* prepare_messages: the system prompt, then every turn; the image files of a
\* user turn go along only for a vision-capable model
PrepareMessages(msgs, model, prompt) ==
    << Processed("system", prompt, << >>) >>
    \o [ i \in 1..Len(msgs) |->
           IF msgs[i].role = "user"
           THEN (IF IsVisionCapable(model) /\ msgs[i].image_files # << >>
                 THEN FormatMultimodalMessage(msgs[i])
                 ELSE Processed("user", msgs[i].content, << >>))
           ELSE Processed("assistant", msgs[i].content, << >>) ]

TextOnlyMarker == " [Image description not supported by this model]"

\* A conversion that puts the marker on every message.
MarkEveryMessage(processed) ==
    [ i \in 1..Len(processed) |->
        Processed(processed[i].role, processed[i].content \o << TextOnlyMarker >>, << >>) ]

\* process_text_only_messages: a multimodal message becomes its text and the marker
ProcessTextOnlyMessages(processed) ==
    [ i \in 1..Len(processed) |->
        IF processed[i].images # << >>
        THEN Processed(processed[i].role, processed[i].content \o << TextOnlyMarker >>, << >>)
        ELSE processed[i] ]

\* A request that offers the tool schemas to every provider.
ChatRequestAlwaysTools(model, processed, temperature) ==
    [ service |-> "chat.completions",
      model |-> model,
      tools |-> TRUE,
      messages |-> processed,
      temperature |-> << temperature >> ]

\* The arguments of client.chat.completions.create, by branch of process_llm_request.
ChatRequest(model, processed, temperature) ==
    [ service |-> "chat.completions",
      model |-> model,
      tools |-> IsOpenAI(model),
      messages |-> IF IsOpenAI(model) \/ model = "Llama 4 Scout" THEN processed
                   ELSE ProcessTextOnlyMessages(processed),
      temperature |-> IF model = "OpenAI o4-mini" THEN << >> ELSE << temperature >> ]

RECURSIVE LastUserQuestion(_)
\* for msg in reversed(processed_messages): the content of the first user message;
\* a multimodal content is a non-empty list
LastUserQuestion(processed) ==
    IF processed = << >> THEN << >>
    ELSE LET msg == processed[Len(processed)]
         IN  IF msg.role = "user"
             THEN (IF msg.images # << >> THEN << "<multimodal>" >> \o msg.content
                   ELSE msg.content)
             ELSE LastUserQuestion(SubSeq(processed, 1, Len(processed) - 1))

-----------------------------------------------------------------------------
\* The chunks a provider stream may deliver.

TextChunk(text) == [ has_content |-> TRUE, content |-> text, tool_calls |-> << >> ]

ToolDelta(index, name, arguments) ==
    [ index |-> index, name |-> name, arguments |-> arguments ]

ToolChunk(deltas) == [ has_content |-> FALSE, content |-> << >>, tool_calls |-> deltas ]

\* Whole invocations, one per chunk: what the dispatch loop has to tell apart.
OrchChunks ==
    { TextChunk(<< "a" >>), TextChunk(<< " " >>) }
    \cup { ToolChunk(<< ToolDelta(i, n, a) >>) :
             i \in { 0 }, n \in { "generate_image", "web_search" },
             a \in { << "{", "p", "q", "}" >>, << "{", "m", "p", "}" >>, << "{" >> } }
    \cup { ToolChunk(<< ToolDelta(1, n, << "{", "p", "q", "}" >>) >>) :
             n \in { "generate_image", "web_search" } }
    \cup { ToolChunk(<< ToolDelta(0, "other", << "{", "}" >>) >>) }

\* The same, cut down to one chunk per path of the dispatch loop.
TurnChunks ==
    { TextChunk(<< "a" >>),
      ToolChunk(<< ToolDelta(0, "generate_image", << "{", "p", "}" >>) >>),
      ToolChunk(<< ToolDelta(0, "generate_image", << "{" >>) >>),
      ToolChunk(<< ToolDelta(0, "web_search", << "{", "q", "}" >>) >>),
      ToolChunk(<< ToolDelta(1, "web_search", << "{", "q", "}" >>) >>),
      ToolChunk(<< ToolDelta(0, "other", << "{", "}" >>) >>) }

\* One chunk per kind of turn ending: text, an image, a search.
SessionChunks ==
    { TextChunk(<< "a" >>),
      ToolChunk(<< ToolDelta(0, "generate_image", << "{", "p", "}" >>) >>),
      ToolChunk(<< ToolDelta(0, "web_search", << "{", "q", "}" >>) >>) }

\* Image requests: a new image, a modification, an explicit non-modification, a
\* size dall-e-2 accepts, a size it does not, no prompt, and a broken object.
ImageChunks ==
    { TextChunk(<< "a" >>) }
    \cup { ToolChunk(<< ToolDelta(0, "generate_image", a) >>) :
             a \in { << "{", "p", "}" >>, << "{", "m", "p", "}" >>, << "{", "n", "p", "}" >>,
                     << "{", "p", "s512", "}" >>, << "{", "m", "p", "s1792", "}" >>,
                     << "{", "m", "}" >>, << "{" >> } }

\* Search requests: with a query, without one, and a broken object.
SearchChunks ==
    { TextChunk(<< "a" >>) }
    \cup { ToolChunk(<< ToolDelta(0, "web_search", a) >>) :
             a \in { << "{", "q", "}" >>, << "{", "p", "}" >>, << "{" >> } }

\* What the search service can do: fail, or return up to MaxResults results, with
\* or without an answer, all entries complete or one of them lacking a member.
SearchResponses ==
    { SearchFails }
    \cup UNION { { SearchResponse(answer, SearchResults(n, bad, missing)) :
                     answer \in { << >>, << "<answer>" >> }, bad \in 0..n,
                     missing \in { "title", "url" } } : n \in 0..MaxResults }

\* A text turn and an image turn.
SettingsChunks ==
    { TextChunk(<< "a" >>),
      ToolChunk(<< ToolDelta(0, "generate_image", << "{", "p", "}" >>) >>) }

\* Text only.
DocChunks == { TextChunk(<< "a" >>) }

EmptyChunk == [ has_content |-> FALSE, content |-> << >>, tool_calls |-> << >> ]

\* Invocations in fragments: a name, pieces of the argument text, text deltas.
AggChunks ==
    { TextChunk(t) : t \in { << >>, << "H", "e", "l" >>, << "l", "o" >> } }
    \cup { ToolChunk(<< ToolDelta(i, n, << >>) >>) :
             i \in { 0, 1 }, n \in { "generate_image", "web_search" } }
    \cup { ToolChunk(<< ToolDelta(i, "", a) >>) :
             i \in { 0, 1 }, a \in { << "{" >>, << "p" >>, << "}" >>, << "p", "}" >> } }
    \cup { ToolChunk(<< ToolDelta(0, "generate_image", << "{" >>) >>),
           ToolChunk(<< ToolDelta(0, "", << >>) >>),
           ToolChunk(<< ToolDelta(0, "generate_image", << "{" >>),
                        ToolDelta(1, "web_search", << "{" >>) >>),
           [ has_content |-> TRUE, content |-> << "l", "o" >>,
             tool_calls |-> << ToolDelta(0, "", << "p" >>) >> ],
           EmptyChunk }

-----------------------------------------------------------------------------
\* State.

session ==
    << messages, thinking, llm_chat_model, language, last_image_prompt, system_prompt,
       settings, documents >>

Init ==
    /\ messages = << >>
    /\ thinking = FALSE
    /\ llm_chat_model = "OpenAI GPT-4.1"
    /\ language = "Svenska"
    /\ last_image_prompt = << >>
    /\ system_prompt = ChatPrompt("Svenska")
    /\ llm_temperature = 7
    /\ image_model = "dall-e-3"
    /\ image_size = "1024x1024"
    /\ image_quality = "medium"
    /\ document_mode = FALSE
    /\ document_index = << >>
    /\ uploaded_documents = << >>
    /\ document_processing = FALSE
    /\ original_user_question = << >>
    /\ pc = "Idle"
    /\ processed_messages = << >>
    /\ full_response = << >>
    /\ collected_tool_calls = << >>
    /\ tool_calls = << >>
    /\ tc_pos = 0
    /\ placeholder = << >>
    /\ stream = << >>
    /\ executed = << >>
    /\ gate_log = << >>
    /\ service_calls = << >>
    /\ provider_calls = 0
    /\ raised = FALSE
    /\ turn_base = 0

\* main has documents to index at the start of the script run
IndexingPending == document_processing /\ document_index = << >>

\* The script run is waiting for a widget event: no response is pending or in
\* flight and no indexing is due.
CanInteract == pc = "Idle" /\ ~thinking /\ ~IndexingPending

\* locals of generate_response and what is recorded about the turn
turn ==
    << processed_messages, full_response, collected_tool_calls, tool_calls, tc_pos,
       placeholder, stream, executed, gate_log, service_calls, provider_calls, raised,
       turn_base >>

-----------------------------------------------------------------------------
\* User events.

\* A chat input that is accepted whatever the script run is doing.
HandleChatInputAnytime ==
    /\ NumUserTurns(messages) < MaxTurns
    /\ messages' = Append(messages, Turn("user", UserText))
    /\ thinking' = TRUE
    /\ UNCHANGED << llm_chat_model, language, last_image_prompt, system_prompt,
                    settings, documents, pc, turn >>

\* handle_chat_input, text only: append the user turn, set the flag, rerun
HandleChatInput ==
    /\ CanInteract
    /\ ~document_processing
    /\ NumUserTurns(messages) < MaxTurns
    /\ messages' = Append(messages, Turn("user", UserText))
    /\ thinking' = TRUE
    /\ UNCHANGED << llm_chat_model, language, last_image_prompt, system_prompt,
                    settings, documents, pc, turn >>

\* handle_chat_input, image files with or without text
HandleChatInputImages(text) ==
    /\ CanInteract
    /\ ~document_processing
    /\ NumUserTurns(messages) < MaxTurns
    /\ messages' = Append(messages, UserTurn(text, ImageFiles))
    /\ thinking' = TRUE
    /\ UNCHANGED << llm_chat_model, language, last_image_prompt, system_prompt,
                    settings, documents, pc, turn >>

\* handle_chat_input, document files with or without text; ok are the positions
\* of the files process_document could save. With none saved the input is
\* handled as a text turn.
HandleChatInputDocuments(files, ok, text) ==
    /\ CanInteract
    /\ ~document_processing
    /\ NumUploads(messages) < MaxUploads
    /\ ok = { } => NumUserTurns(messages) < MaxTurns
    /\ uploaded_documents' = uploaded_documents \o Saved(files, ok, 1)
    /\ IF ok # { }
       THEN /\ original_user_question' = text
            /\ messages' = messages \o << UploadTurn(files),
                                          Turn("assistant", DocumentModeNotification) >>
            /\ document_mode' = TRUE
            /\ system_prompt' = DocPrompt(language)
            /\ document_processing' = TRUE
            /\ UNCHANGED thinking
       ELSE /\ messages' = Append(messages, UserTurn(text, << >>))
            /\ thinking' = TRUE
            /\ UNCHANGED << original_user_question, document_mode, system_prompt,
                            document_processing >>
    /\ UNCHANGED << llm_chat_model, settings, language, last_image_prompt,
                    document_index, pc, turn >>

\* main, "Process documents if needed": the index is built at the start of the
\* script run; svc is "error" when reading or indexing raises.
ProcessDocuments(svc) ==
    /\ pc = "Idle"
    /\ IndexingPending
    /\ LET c == CreateDocumentIndex(uploaded_documents, svc)
       IN  /\ document_index' = c.index
           /\ uploaded_documents' = c.pending
           /\ document_processing' = FALSE
           /\ IF c.index = << >>
              THEN UNCHANGED << messages, thinking, original_user_question >>
              ELSE IF original_user_question # << >>
              THEN /\ messages' = Append(messages, Turn("user", original_user_question))
                   /\ thinking' = TRUE
                   /\ original_user_question' = << >>
              ELSE /\ messages' = Append(messages, Turn("assistant", DocumentModeNotification))
                   /\ UNCHANGED << thinking, original_user_question >>
    /\ UNCHANGED << llm_chat_model, language, last_image_prompt, system_prompt,
                    settings, document_mode, pc, turn >>

\* A reset that leaves the index in place.
ResetChatKeepsIndex ==
    /\ CanInteract
    /\ messages' = << Turn("assistant", Greeting) >>
    /\ last_image_prompt' = << >>
    /\ document_mode' = FALSE
    /\ uploaded_documents' = << >>
    /\ system_prompt' = ChatPrompt(language)
    /\ UNCHANGED << thinking, llm_chat_model, settings, language, document_index,
                    document_processing, original_user_question, pc, turn >>

\* A reset that also restores the default temperature.
ResetChatRestoresSettings ==
    /\ CanInteract
    /\ messages' = << Turn("assistant", Greeting) >>
    /\ last_image_prompt' = << >>
    /\ document_mode' = FALSE
    /\ document_index' = << >>
    /\ uploaded_documents' = << >>
    /\ system_prompt' = ChatPrompt(language)
    /\ llm_temperature' = 7
    /\ UNCHANGED << thinking, llm_chat_model, image_model, image_size, image_quality,
                    language, document_processing, original_user_question, pc, turn >>

\* reset_chat (the "new chat" button)
ResetChat ==
    /\ CanInteract
    /\ messages' = << Turn("assistant", Greeting) >>
    /\ last_image_prompt' = << >>
    /\ document_mode' = FALSE
    /\ document_index' = << >>
    /\ uploaded_documents' = << >>
    /\ system_prompt' = ChatPrompt(language)
    /\ UNCHANGED << thinking, llm_chat_model, settings, language,
                    document_processing, original_user_question, pc, turn >>

\* on_model_change
OnModelChange(m) ==
    /\ CanInteract
    /\ m # llm_chat_model
    /\ llm_chat_model' = m
    /\ UNCHANGED << messages, thinking, language, last_image_prompt, system_prompt,
                    settings, documents, pc, turn >>

CustomPrompt == << "<custom prompt>" >>

Temperatures == { 2, 7 }

\* render_settings: the temperature slider
SetTemperature(t) ==
    /\ CanInteract
    /\ t # llm_temperature
    /\ llm_temperature' = t
    /\ UNCHANGED << messages, thinking, llm_chat_model, language, last_image_prompt,
                    system_prompt, image_model, image_size, image_quality, documents,
                    pc, turn >>

\* render_settings: the system prompt form
SubmitSystemPrompt(prompt_input) ==
    /\ CanInteract
    /\ prompt_input # system_prompt
    /\ system_prompt' = prompt_input
    /\ UNCHANGED << messages, thinking, llm_chat_model, language, last_image_prompt,
                    settings, documents, pc, turn >>

\* render_settings: the image model selectbox
SetImageModel(m) ==
    /\ CanInteract
    /\ m # image_model
    /\ image_model' = m
    /\ UNCHANGED << messages, thinking, llm_chat_model, language, last_image_prompt,
                    system_prompt, llm_temperature, image_size, image_quality,
                    documents, pc, turn >>

\* render_settings: the quality selectbox, shown for gpt-image-1 only
SetImageQuality(q) ==
    /\ CanInteract
    /\ image_model = "gpt-image-1"
    /\ q # image_quality
    /\ image_quality' = q
    /\ UNCHANGED << messages, thinking, llm_chat_model, language, last_image_prompt,
                    system_prompt, llm_temperature, image_model, image_size,
                    documents, pc, turn >>

\* A language change that also leaves document mode.
UpdateLanguageLeavesMode(l) ==
    /\ CanInteract
    /\ l # language
    /\ language' = l
    /\ document_mode' = FALSE
    /\ UNCHANGED << messages, thinking, llm_chat_model, last_image_prompt,
                    system_prompt, settings, document_index, uploaded_documents,
                    document_processing, original_user_question, pc, turn >>

\* update_language (functions/menu.py)
UpdateLanguage(l) ==
    /\ CanInteract
    /\ l # language
    /\ language' = l
    /\ UNCHANGED << messages, thinking, llm_chat_model, last_image_prompt,
                    system_prompt, settings, documents, pc, turn >>

-----------------------------------------------------------------------------
\* process_assistant_response and generate_response, step by step:
\*   "Idle"         no response is being generated
\*   "Streaming"    process_llm_request iterates over the provider's stream
\*   "Dispatching"  generate_response walks the completed tool calls
\*   "Cleanup"      generate_response has returned; the image clean-up is next

\* A start of the response that leaves the flag set.
BeginResponseKeepsFlag ==
    /\ pc = "Idle"
    /\ thinking
    /\ ~document_mode
    /\ turn_base' = Len(messages)
    /\ processed_messages' = PrepareMessages(messages, llm_chat_model, system_prompt)
    /\ provider_calls' = 1
    /\ service_calls' = << ChatRequest(llm_chat_model, processed_messages', llm_temperature) >>
    /\ pc' = "Streaming"
    /\ UNCHANGED << messages, thinking, llm_chat_model, language, last_image_prompt,
                    system_prompt, settings, documents, full_response,
                    collected_tool_calls, tool_calls, tc_pos, placeholder, stream,
                    executed, gate_log, raised >>

\* process_assistant_response clears the flag and enters generate_response;
\* client.chat.completions.create returns a stream.
BeginResponse ==
    /\ pc = "Idle"
    /\ thinking
    /\ ~document_mode
    /\ thinking' = FALSE
    /\ turn_base' = Len(messages)
    /\ processed_messages' = PrepareMessages(messages, llm_chat_model, system_prompt)
    /\ provider_calls' = 1
    /\ service_calls' = << ChatRequest(llm_chat_model, processed_messages', llm_temperature) >>
    /\ pc' = "Streaming"
    /\ UNCHANGED << messages, llm_chat_model, language, last_image_prompt,
                    system_prompt, settings, documents, full_response,
                    collected_tool_calls, tool_calls, tc_pos, placeholder, stream,
                    executed, gate_log, raised >>

\* A fallback that overwrites the turn it answers.
FallbackReplaces ==
    /\ raised' = TRUE
    /\ full_response' = FallbackApology
    /\ placeholder' = FallbackApology
    /\ messages' = [ messages EXCEPT ![Len(messages)] = Turn("assistant", FallbackApology) ]
    /\ pc' = "Cleanup"

\* except Exception: the fallback turn of generate_response
Fallback ==
    /\ raised' = TRUE
    /\ full_response' = FallbackApology
    /\ placeholder' = FallbackApology
    /\ messages' = Append(messages, Turn("assistant", FallbackApology))
    /\ pc' = "Cleanup"

\* client.chat.completions.create raises
ProviderCallFails ==
    /\ pc = "Idle"
    /\ thinking
    /\ ~document_mode
    /\ thinking' = FALSE
    /\ turn_base' = Len(messages)
    /\ processed_messages' = PrepareMessages(messages, llm_chat_model, system_prompt)
    /\ provider_calls' = 1
    /\ service_calls' = << ChatRequest(llm_chat_model, processed_messages', llm_temperature) >>
    /\ Fallback
    /\ UNCHANGED << llm_chat_model, language, last_image_prompt, system_prompt,
                    settings, documents, collected_tool_calls, tool_calls, tc_pos,
                    stream, executed, gate_log >>

\* A document-mode turn that goes to the provider like any other.
DocumentAnswerCallsProvider(svc_index, svc_query) ==
    /\ pc = "Idle"
    /\ thinking
    /\ document_mode
    /\ thinking' = FALSE
    /\ turn_base' = Len(messages)
    /\ processed_messages' = PrepareMessages(messages, llm_chat_model, system_prompt)
    /\ provider_calls' = 1
    /\ pc' = "Streaming"
    /\ UNCHANGED << messages, llm_chat_model, language, last_image_prompt,
                    system_prompt, settings, documents, full_response,
                    collected_tool_calls, tool_calls, tc_pos, placeholder, stream,
                    executed, gate_log, service_calls, raised >>

\* The document branch of process_llm_request; svc_index and svc_query are the
\* outcomes of building the index and of query_engine.query.
DocumentAnswer(svc_index, svc_query) ==
    /\ pc = "Idle"
    /\ thinking
    /\ document_mode
    /\ thinking' = FALSE
    /\ turn_base' = Len(messages)
    /\ processed_messages' = PrepareMessages(messages, llm_chat_model, system_prompt)
    /\ LET user_question == LastUserQuestion(processed_messages')
           r == QueryDocument(document_index, uploaded_documents, document_processing,
                              svc_index, svc_query)
       IN  IF user_question = << >>
           THEN /\ full_response' = NotUnderstoodMessage
                /\ pc' = "Dispatching"
                /\ tc_pos' = 1
                /\ UNCHANGED << messages, document_index, uploaded_documents,
                                document_processing, placeholder, gate_log, raised >>
           ELSE /\ document_index' = r.index
                /\ uploaded_documents' = r.pending
                /\ document_processing' = r.processing
                /\ gate_log' = r.log
                /\ IF r.raised
                   THEN Fallback /\ UNCHANGED tc_pos
                   ELSE /\ full_response' = r.answer
                        /\ placeholder' = r.answer \o << Cursor >>
                        /\ pc' = "Dispatching"
                        /\ tc_pos' = 1
                        /\ UNCHANGED << messages, raised >>
    /\ UNCHANGED << llm_chat_model, language, last_image_prompt, system_prompt,
                    settings, document_mode, original_user_question,
                    collected_tool_calls, tool_calls, stream, executed,
                    service_calls, provider_calls >>

\* One iteration of "for chunk in stream" of the tool-enabled branch.
StreamChunkTools(chunk) ==
    /\ pc = "Streaming"
    /\ IsOpenAI(llm_chat_model)
    /\ full_response' = AppendText(full_response, chunk)
    /\ placeholder' = Show(placeholder, full_response', chunk)
    /\ collected_tool_calls' = ApplyToolDeltas(collected_tool_calls, chunk.tool_calls)
    /\ stream' = Append(stream, chunk)
    /\ UNCHANGED << session, pc, processed_messages, tool_calls, tc_pos, executed,
                    gate_log, service_calls, provider_calls, raised, turn_base >>

\* One iteration of "for chunk in stream" of the tool-less branch.
StreamChunkText(chunk) ==
    /\ pc = "Streaming"
    /\ ~IsOpenAI(llm_chat_model)
    /\ full_response' = AppendText(full_response, chunk)
    /\ placeholder' = Show(placeholder, full_response', chunk)
    /\ stream' = Append(stream, chunk)
    /\ UNCHANGED << session, pc, processed_messages, collected_tool_calls,
                    tool_calls, tc_pos, executed, gate_log, service_calls,
                    provider_calls, raised, turn_base >>

\* A failed stream that is answered by calling the provider again.
StreamFailsRetry ==
    /\ pc = "Streaming"
    /\ provider_calls' = provider_calls + 1
    /\ full_response' = << >>
    /\ collected_tool_calls' = << >>
    /\ stream' = << >>
    /\ UNCHANGED << session, pc, processed_messages, tool_calls, tc_pos,
                    placeholder, executed, gate_log, service_calls, raised,
                    turn_base >>

\* The iteration over the stream raises.
StreamFails ==
    /\ pc = "Streaming"
    /\ Fallback
    /\ UNCHANGED << thinking, llm_chat_model, language, last_image_prompt,
                    system_prompt, settings, documents, processed_messages,
                    collected_tool_calls, tool_calls, tc_pos, stream, executed,
                    gate_log, service_calls, provider_calls, turn_base >>

\* The stream ends: process_llm_request returns (full_response, tool_calls).
EndStream ==
    /\ pc = "Streaming"
    /\ tool_calls' = IF IsOpenAI(llm_chat_model)
                     THEN CompletedInvocations(collected_tool_calls)
                     ELSE << >>
    /\ tc_pos' = 1
    /\ pc' = "Dispatching"
    /\ UNCHANGED << session, processed_messages, full_response,
                    collected_tool_calls, placeholder, stream, executed, gate_log,
                    service_calls, provider_calls, raised, turn_base >>

AtToolCall(name) ==
    /\ pc = "Dispatching"
    /\ tc_pos <= Len(tool_calls)
    /\ tool_calls[tc_pos].name = name

\* Image turns that carry the streamed text whether it is blank or not.
ImageTurnsAlwaysText(url, final_prompt, text) ==
    << [ Turn("assistant", ImageTurnContent(final_prompt)) EXCEPT !.display_images = url ],
       Turn("assistant", text) >>

\* The turns appended after a generated image: the image turn, then the streamed text.
ImageTurns(url, final_prompt, text) ==
    << [ Turn("assistant", ImageTurnContent(final_prompt)) EXCEPT !.display_images = url ] >>
    \o (IF ~IsBlank(text) THEN << Turn("assistant", text) >> ELSE << >>)

\* A generate_image whose failure reaches the except branch of generate_response.
DispatchImageRaises(svc) ==
    /\ AtToolCall("generate_image")
    /\ LET r == ExecuteImageGenerationTool(tool_calls[tc_pos], last_image_prompt,
                                           image_model, svc)
       IN  /\ executed' = Append(executed, [ name |-> "generate_image", outcome |-> r.outcome ])
           /\ service_calls' =
                IF ReachesImageService(tool_calls[tc_pos], image_model)
                THEN Append(service_calls,
                            ImageRequest(tool_calls[tc_pos], last_image_prompt, image_model,
                                         image_size, image_quality))
                ELSE service_calls
           /\ last_image_prompt' = r.last_image_prompt
           /\ tc_pos' = tc_pos
           /\ IF r.image_url # << >>
              THEN /\ messages' = messages \o ImageTurns(r.image_url, r.final_prompt, full_response)
                   /\ placeholder' = << >>
                   /\ pc' = "Cleanup"
                   /\ UNCHANGED << full_response, raised >>
              ELSE Fallback
    /\ UNCHANGED << thinking, llm_chat_model, language, system_prompt, settings,
                    documents, processed_messages, collected_tool_calls, tool_calls,
                    stream, gate_log, provider_calls, turn_base >>

\* Loop body for a generate_image invocation; svc is the image service's outcome.
DispatchImage(svc) ==
    /\ AtToolCall("generate_image")
    /\ LET r == ExecuteImageGenerationTool(tool_calls[tc_pos], last_image_prompt,
                                           image_model, svc)
       IN  /\ executed' = Append(executed, [ name |-> "generate_image", outcome |-> r.outcome ])
           /\ service_calls' =
                IF ReachesImageService(tool_calls[tc_pos], image_model)
                THEN Append(service_calls,
                            ImageRequest(tool_calls[tc_pos], last_image_prompt, image_model,
                                         image_size, image_quality))
                ELSE service_calls
           /\ last_image_prompt' = r.last_image_prompt
           /\ IF r.image_url # << >>
              THEN /\ messages' = messages \o ImageTurns(r.image_url, r.final_prompt, full_response)
                   /\ placeholder' = << >>
                   /\ pc' = "Cleanup"
                   /\ tc_pos' = tc_pos
              ELSE /\ placeholder' = << ImageGenerationError >>
                   /\ tc_pos' = tc_pos + 1
                   /\ UNCHANGED << messages, pc >>
    /\ UNCHANGED << thinking, llm_chat_model, language, system_prompt, settings,
                    documents, processed_messages, full_response,
                    collected_tool_calls, tool_calls, stream, gate_log,
                    provider_calls, raised, turn_base >>

\* A combined response that drops the streamed text.
ResultOnly(text, search_result) == search_result

\* combined_response of generate_response
CombinedResponse(text, search_result) ==
    IF ~IsBlank(text) THEN text \o << "\n\n" >> \o search_result ELSE search_result

\* Loop body for a web_search invocation; svc is the search service's outcome.
DispatchSearch(svc) ==
    /\ AtToolCall("web_search")
    /\ LET r == ExecuteWebSearchTool(tool_calls[tc_pos], language, svc)
           combined_response == CombinedResponse(full_response, r.text)
       IN  /\ executed' = Append(executed, [ name |-> "web_search", outcome |-> r.outcome,
                                              response |-> svc ])
           /\ service_calls' =
                IF ReachesSearchService(tool_calls[tc_pos])
                THEN Append(service_calls, SearchRequest(language))
                ELSE service_calls
           /\ messages' = Append(messages, Turn("assistant", combined_response))
           /\ placeholder' = combined_response
    /\ pc' = "Cleanup"
    /\ UNCHANGED << thinking, llm_chat_model, language, last_image_prompt,
                    system_prompt, settings, documents, processed_messages,
                    full_response, collected_tool_calls, tool_calls, tc_pos,
                    stream, gate_log, provider_calls, raised,
                    turn_base >>

\* Loop body for an invocation whose name is neither tool: nothing happens.
DispatchSkip ==
    /\ pc = "Dispatching"
    /\ tc_pos <= Len(tool_calls)
    /\ tool_calls[tc_pos].name \notin { "generate_image", "web_search" }
    /\ tc_pos' = tc_pos + 1
    /\ UNCHANGED << session, pc, processed_messages, full_response,
                    collected_tool_calls, tool_calls, placeholder, stream,
                    executed, gate_log, service_calls, provider_calls, raised,
                    turn_base >>

\* A last step that appends the text only when there is some.
FinalizeSkipsBlank ==
    /\ pc = "Dispatching"
    /\ tc_pos > Len(tool_calls)
    /\ messages' = IF IsBlank(full_response) THEN messages
                   ELSE Append(messages, Turn("assistant", full_response))
    /\ placeholder' = full_response
    /\ pc' = "Cleanup"
    /\ UNCHANGED << thinking, llm_chat_model, language, last_image_prompt,
                    system_prompt, settings, documents, processed_messages,
                    full_response, collected_tool_calls, tool_calls, tc_pos,
                    stream, executed, gate_log, service_calls, provider_calls,
                    raised, turn_base >>

\* After the loop (or with no tool calls): the plain text turn.
Finalize ==
    /\ pc = "Dispatching"
    /\ tc_pos > Len(tool_calls)
    /\ messages' = Append(messages, Turn("assistant", full_response))
    /\ placeholder' = full_response
    /\ pc' = "Cleanup"
    /\ UNCHANGED << thinking, llm_chat_model, language, last_image_prompt,
                    system_prompt, settings, documents, processed_messages,
                    full_response, collected_tool_calls, tool_calls, tc_pos,
                    stream, executed, gate_log, service_calls, provider_calls,
                    raised, turn_base >>

\* generate_response has returned: cleanup_image_data_after_processing, and the
\* script run ends with the locals of the calls gone.
FinishResponse ==
    /\ pc = "Cleanup"
    /\ messages' = Cleanup(messages)
    /\ pc' = "Idle"
    /\ processed_messages' = << >>
    /\ full_response' = << >>
    /\ collected_tool_calls' = << >>
    /\ tool_calls' = << >>
    /\ tc_pos' = 0
    /\ placeholder' = << >>
    /\ stream' = << >>
    /\ executed' = << >>
    /\ gate_log' = << >>
    /\ service_calls' = << >>
    /\ provider_calls' = 0
    /\ raised' = FALSE
    /\ turn_base' = 0
    /\ UNCHANGED << thinking, llm_chat_model, language, last_image_prompt,
                    system_prompt, settings, documents >>

-----------------------------------------------------------------------------
\* Specifications.

ServiceOutcomes == { "ok", "error" }

\* The conversation: user events, and turns whose stream carries whole invocations.
Next ==
    \/ HandleChatInput
    \/ ResetChat
    \/ \E m \in Models : OnModelChange(m)
    \/ \E l \in Languages : UpdateLanguage(l)
    \/ BeginResponse
    \/ ProviderCallFails
    \/ \E chunk \in OrchChunks : Len(stream) < MaxChunks /\ StreamChunkTools(chunk)
    \/ \E chunk \in OrchChunks : Len(stream) < MaxChunks /\ StreamChunkText(chunk)
    \/ StreamFails
    \/ EndStream
    \/ \E svc \in ServiceOutcomes : DispatchImage(svc)
    \/ \E svc \in SearchOutcomes : DispatchSearch(svc)
    \/ DispatchSkip
    \/ Finalize
    \/ FinishResponse

Spec == Init /\ [][Next]_vars

\* The conversation in the default language, with the smaller set of chunks.
NextTurns ==
    \/ HandleChatInput
    \/ ResetChat
    \/ \E m \in Models : OnModelChange(m)
    \/ BeginResponse
    \/ ProviderCallFails
    \/ \E chunk \in TurnChunks : Len(stream) < MaxChunks /\ StreamChunkTools(chunk)
    \/ \E chunk \in TurnChunks : Len(stream) < MaxChunks /\ StreamChunkText(chunk)
    \/ StreamFails
    \/ EndStream
    \/ \E svc \in ServiceOutcomes : DispatchImage(svc)
    \/ \E svc \in SearchOutcomes : DispatchSearch(svc)
    \/ DispatchSkip
    \/ Finalize
    \/ FinishResponse

SpecTurns == Init /\ [][NextTurns]_vars

\* The steps of the script run that answers a pending turn. st.rerun() starts
\* the run and the run goes on until it ends: process_assistant_response,
\* generate_response with the end or the failure of the stream and the tool
\* loop, then the clean-up.
TurnProgress ==
    \/ BeginResponse
    \/ ProviderCallFails
    \/ StreamFails
    \/ EndStream
    \/ \E svc \in ServiceOutcomes : DispatchImage(svc)
    \/ \E svc \in SearchOutcomes : DispatchSearch(svc)
    \/ DispatchSkip
    \/ Finalize
    \/ FinishResponse

\* The conversation whose script runs run to their end.
SpecTurnsFair == SpecTurns /\ WF_vars(TurnProgress)

\* The models the session switches between: with and without tools and vision.
SessionModels == { "OpenAI GPT-4.1", "Gemma2 9B" }

UserTexts == { << >>, UserText }

\* The session with attachments: images, document uploads and indexing,
\* document-mode answers, and turns that end in text, an image or a search.
NextSession ==
    \/ HandleChatInput
    \/ \E text \in UserTexts : HandleChatInputImages(text)
    \/ \E files \in DocInputs : \E ok \in SUBSET (1..Len(files)) : \E text \in UserTexts :
         HandleChatInputDocuments(files, ok, text)
    \/ \E svc \in ServiceOutcomes : ProcessDocuments(svc)
    \/ ResetChat
    \/ \E m \in SessionModels : OnModelChange(m)
    \/ BeginResponse
    \/ ProviderCallFails
    \/ \E svc_index, svc_query \in ServiceOutcomes : DocumentAnswer(svc_index, svc_query)
    \/ \E chunk \in SessionChunks : Len(stream) < MaxChunks /\ StreamChunkTools(chunk)
    \/ \E chunk \in SessionChunks : Len(stream) < MaxChunks /\ StreamChunkText(chunk)
    \/ StreamFails
    \/ EndStream
    \/ \E svc \in ServiceOutcomes : DispatchImage(svc)
    \/ \E svc \in SearchOutcomes : DispatchSearch(svc)
    \/ Finalize
    \/ FinishResponse

SpecSession == Init /\ [][NextSession]_vars

\* Documents: uploads, indexing, document-mode answers, resets and language
\* changes, around text turns of the default model.
NextDocs ==
    \/ HandleChatInput
    \/ \E files \in DocInputs : \E ok \in SUBSET (1..Len(files)) : \E text \in UserTexts :
         HandleChatInputDocuments(files, ok, text)
    \/ \E svc \in ServiceOutcomes : ProcessDocuments(svc)
    \/ ResetChat
    \/ \E l \in Languages : UpdateLanguage(l)
    \/ BeginResponse
    \/ ProviderCallFails
    \/ \E svc_index, svc_query \in ServiceOutcomes : DocumentAnswer(svc_index, svc_query)
    \/ \E chunk \in DocChunks : Len(stream) < MaxChunks /\ StreamChunkTools(chunk)
    \/ StreamFails
    \/ EndStream
    \/ Finalize
    \/ FinishResponse

SpecDocs == Init /\ [][NextDocs]_vars

\* The steps a script run takes by itself: main builds the index at the start
\* of the run that follows an upload (the upload ends in st.rerun()), and
\* process_assistant_response answers a pending turn and reruns.
DocsProgress ==
    \/ \E svc \in ServiceOutcomes : ProcessDocuments(svc)
    \/ BeginResponse
    \/ ProviderCallFails
    \/ \E svc_index, svc_query \in ServiceOutcomes : DocumentAnswer(svc_index, svc_query)
    \/ StreamFails
    \/ EndStream
    \/ Finalize
    \/ FinishResponse

\* The document session in which every script run that is due is carried out.
SpecDocsFair == SpecDocs /\ WF_vars(DocsProgress)

\* The settings: everything render_settings and the model selector edit, around
\* text and image turns, one-file uploads, indexing, document answers and resets.
NextSettings ==
    \/ HandleChatInput
    \/ \E ok \in SUBSET { 1 } : HandleChatInputDocuments(<< "r" >>, ok, << >>)
    \/ ProcessDocuments("ok")
    \/ ResetChat
    \/ \E m \in SessionModels : OnModelChange(m)
    \/ \E t \in Temperatures : SetTemperature(t)
    \/ SubmitSystemPrompt(CustomPrompt)
    \/ \E m \in ImageModels : SetImageModel(m)
    \/ \E q \in ImageQualities : SetImageQuality(q)
    \/ BeginResponse
    \/ DocumentAnswer("ok", "ok")
    \/ \E chunk \in SettingsChunks : stream = << >> /\ StreamChunkTools(chunk)
    \/ \E chunk \in SettingsChunks : stream = << >> /\ StreamChunkText(chunk)
    \/ EndStream
    \/ \E svc \in ServiceOutcomes : DispatchImage(svc)
    \/ Finalize
    \/ FinishResponse

SpecSettings == Init /\ [][NextSettings]_vars

\* Image generation: turns of the default model that ask for images, with every
\* image model, resets in between, and an image service that answers or fails.
NextImages ==
    \/ HandleChatInput
    \/ ResetChat
    \/ \E m \in ImageModels : SetImageModel(m)
    \/ BeginResponse
    \/ \E chunk \in ImageChunks : Len(stream) < MaxChunks /\ StreamChunkTools(chunk)
    \/ EndStream
    \/ \E svc \in ServiceOutcomes : DispatchImage(svc)
    \/ Finalize
    \/ FinishResponse

SpecImages == Init /\ [][NextImages]_vars

\* Web search: turns of the default model that ask for a search, in both
\* languages, with every behaviour of the search service.
NextSearch ==
    \/ HandleChatInput
    \/ \E l \in Languages : UpdateLanguage(l)
    \/ BeginResponse
    \/ \E chunk \in SearchChunks : Len(stream) < MaxChunks /\ StreamChunkTools(chunk)
    \/ EndStream
    \/ \E svc \in SearchResponses : DispatchSearch(svc)
    \/ Finalize
    \/ FinishResponse

SpecSearch == Init /\ [][NextSearch]_vars

\* The image models the session state can name: the three of the selectbox, and
\* one that execute_image_generation_tool has no branch for.
AnyImageModels == ImageModels \cup { "<other image model>" }

InitAnyImageModel ==
    /\ messages = << >>
    /\ thinking = FALSE
    /\ llm_chat_model = "OpenAI GPT-4.1"
    /\ language = "Svenska"
    /\ last_image_prompt = << >>
    /\ system_prompt = ChatPrompt("Svenska")
    /\ llm_temperature = 7
    /\ image_model \in AnyImageModels
    /\ image_size = "1024x1024"
    /\ image_quality = "medium"
    /\ document_mode = FALSE
    /\ document_index = << >>
    /\ uploaded_documents = << >>
    /\ document_processing = FALSE
    /\ original_user_question = << >>
    /\ pc = "Idle"
    /\ processed_messages = << >>
    /\ full_response = << >>
    /\ collected_tool_calls = << >>
    /\ tool_calls = << >>
    /\ tc_pos = 0
    /\ placeholder = << >>
    /\ stream = << >>
    /\ executed = << >>
    /\ gate_log = << >>
    /\ service_calls = << >>
    /\ provider_calls = 0
    /\ raised = FALSE
    /\ turn_base = 0

\* execute_image_generation_tool under every image model the session can name.
SpecImageTool == InitAnyImageModel /\ [][NextImages]_vars

\* The turns a stored conversation is made of, for the message lists below.
StoredTurns ==
    { Turn("user", UserText), UserTurn(UserText, ImageFiles), UserTurn(<< >>, ImageFiles),
      Turn("assistant", Greeting) }

\* The lists prepare_messages builds from conversations of up to MaxStored turns,
\* for a vision-capable and for a text-only model.
TextOnlyInputs ==
    { PrepareMessages(c, m, ChatPrompt("Svenska")) :
        c \in UNION { [ 1..k -> StoredTurns ] : k \in 0..MaxStored }, m \in SessionModels }

InitTextOnly ==
    /\ messages = << >>
    /\ thinking = FALSE
    /\ llm_chat_model = "OpenAI GPT-4.1"
    /\ language = "Svenska"
    /\ last_image_prompt = << >>
    /\ system_prompt = ChatPrompt("Svenska")
    /\ llm_temperature = 7
    /\ image_model = "dall-e-3"
    /\ image_size = "1024x1024"
    /\ image_quality = "medium"
    /\ document_mode = FALSE
    /\ document_index = << >>
    /\ uploaded_documents = << >>
    /\ document_processing = FALSE
    /\ original_user_question = << >>
    /\ pc = "Idle"
    /\ processed_messages \in TextOnlyInputs
    /\ full_response = << >>
    /\ collected_tool_calls = << >>
    /\ tool_calls = << >>
    /\ tc_pos = 0
    /\ placeholder = << >>
    /\ stream = << >>
    /\ executed = << >>
    /\ gate_log = << >>
    /\ service_calls = << >>
    /\ provider_calls = 0
    /\ raised = FALSE
    /\ turn_base = 0

\* process_text_only_messages, applied to the list and then to its own result;
\* each result is recorded in service_calls.
ApplyProcessTextOnly ==
    /\ Len(service_calls) < MaxApplications
    /\ LET input == IF service_calls = << >> THEN processed_messages
                    ELSE service_calls[Len(service_calls)].messages
       IN  service_calls' = Append(service_calls, [ service |-> "process_text_only_messages",
                                                     messages |-> ProcessTextOnlyMessages(input) ])
    /\ UNCHANGED << session, pc, processed_messages, full_response, collected_tool_calls,
                    tool_calls, tc_pos, placeholder, stream, executed, gate_log,
                    provider_calls, raised, turn_base >>

\* process_text_only_messages as a function of the message list it is given.
SpecTextOnly == InitTextOnly /\ [][ApplyProcessTextOnly]_vars

\* One turn up to the end of its stream, the stream delivered in fragments.
NextAgg ==
    \/ HandleChatInput
    \/ \E m \in Models : OnModelChange(m)
    \/ BeginResponse
    \/ \E chunk \in AggChunks : Len(stream) < MaxFragments /\ StreamChunkTools(chunk)
    \/ \E chunk \in AggChunks : Len(stream) < MaxFragments /\ StreamChunkText(chunk)
    \/ EndStream

SpecAgg == Init /\ [][NextAgg]_vars

-----------------------------------------------------------------------------
\* What the stream delivered, read off the chunks in arrival order.

RECURSIVE AllDeltas(_)
AllDeltas(st) == IF st = << >> THEN << >> ELSE Head(st).tool_calls \o AllDeltas(Tail(st))

RECURSIVE TextOf(_)
TextOf(st) ==
    IF st = << >> THEN << >>
    ELSE (IF Head(st).has_content THEN Head(st).content ELSE << >>) \o TextOf(Tail(st))

RECURSIVE ArgsOf(_, _)
ArgsOf(ds, i) ==
    IF ds = << >> THEN << >>
    ELSE (IF Head(ds).index = i THEN Head(ds).arguments ELSE << >>) \o ArgsOf(Tail(ds), i)

RECURSIVE FirstName(_, _)
FirstName(ds, i) ==
    IF ds = << >> THEN ""
    ELSE IF Head(ds).index = i /\ Head(ds).name # "" THEN Head(ds).name
    ELSE FirstName(Tail(ds), i)

RECURSIVE LastName(_, _)
LastName(ds, i) ==
    IF ds = << >> THEN ""
    ELSE LET later == LastName(Tail(ds), i)
         IN  IF later # "" THEN later
             ELSE IF Head(ds).index = i THEN Head(ds).name ELSE ""

Indices(ds) == { ds[k].index : k \in 1..Len(ds) }

Aggregating == pc \in { "Streaming", "Dispatching" } /\ IsOpenAI(llm_chat_model)

ApologyTokens ==
    { FallbackApology[1], ImageGenerationError,
      SearchApology("Svenska", "")[1], SearchApology("English", "")[1] }

IsApology(content) == \E i \in 1..Len(content) : content[i] \in ApologyTokens

AppendedTurns == { j \in 1..Len(messages) : j > turn_base }

-----------------------------------------------------------------------------
\* Claims.

\* C1: in one turn at most one tool invocation is executed, whatever the outcome
\* of the first: the two execute_* functions are called at most once in total.
C1_AtMostOneToolExecuted == Len(executed) <= 1

\* C2: when the provider call or the stream fails, the turn ends with exactly one
\* fallback apology turn, the provider has been called once, and the pending
\* flag is false; no response is in flight without the flag having been cleared.
C2_FailureEndsTurnWithOneFallback ==
    /\ provider_calls <= 1
    /\ raised =>
         /\ pc = "Cleanup"
         /\ ~thinking
         /\ Len(messages) = turn_base + 1
         /\ messages[Len(messages)] = Turn("assistant", FallbackApology)
    /\ pc = "Idle" => ~raised /\ provider_calls = 0

\* C2 witness: an earlier turn ended in the fallback apology and the next user
\* turn has been answered with something else.
C2_Witness ==
    /\ pc = "Cleanup"
    /\ ~raised
    /\ turn_base = 3
    /\ messages[2].content = FallbackApology
    /\ messages[Len(messages)].content # FallbackApology

\* C3: when the image service or the search service fails during dispatch, no
\* exception reaches generate_response and the turn ends with exactly one
\* appended turn, an apology.
C3_ServiceFailureEndsInApology ==
    (/\ pc = "Cleanup"
     /\ \E k \in 1..Len(executed) :
          executed[k].outcome \in { "<image service error>", "<search service error>" })
    => /\ ~raised
       /\ Len(messages) = turn_base + 1
       /\ IsApology(messages[Len(messages)].content)

\* C4: when the argument text of an executed invocation is not a JSON object,
\* a turn appended in that turn reports the error.
C4_BadArgumentsReported ==
    (/\ pc = "Cleanup"
     /\ \E k \in 1..Len(executed) : executed[k].outcome = "<json error>")
    => \E j \in AppendedTurns : IsApology(messages[j].content)

C6_SplitInvariance ==
    (/\ pc = "Dispatching"
     /\ IsOpenAI(llm_chat_model)
     /\ Cardinality(Indices(AllDeltas(stream))) = 1)
    => /\ Len(tool_calls) = 1
       /\ \A i \in Indices(AllDeltas(stream)) :
            tool_calls[1].arguments = ArgsOf(AllDeltas(stream), i)

\* C6 witness: the text { p } arrived in three non-empty pieces of index 0.
C6_Witness ==
    /\ pc = "Dispatching"
    /\ Len(AllDeltas(stream)) = 3
    /\ \A k \in 1..3 : AllDeltas(stream)[k].index = 0 /\ AllDeltas(stream)[k].arguments # << >>
    /\ Len(tool_calls) = 1
    /\ tool_calls[1].arguments = << "{", "p", "}" >>
    /\ ParseJson(tool_calls[1].arguments).ok

\* C7 as claimed: the name of an invocation is the first non-empty name its
\* index carried.
C7_NameNeverOverwritten ==
    Aggregating =>
      \A k \in 1..Len(collected_tool_calls) :
        collected_tool_calls[k].name
          = FirstName(AllDeltas(stream), collected_tool_calls[k].id)

\* C7 as amended: the name of an invocation is the last non-empty name its
\* index carried; a fragment without a name leaves it as it is.
C7_NameIsLastNonEmpty ==
    Aggregating =>
      \A k \in 1..Len(collected_tool_calls) :
        collected_tool_calls[k].name
          = LastName(AllDeltas(stream), collected_tool_calls[k].id)

\* C7 witness: an index carried two different names and a nameless fragment after.
C7_Witness ==
    /\ Aggregating
    /\ Len(AllDeltas(stream)) = 3
    /\ AllDeltas(stream)[1] = ToolDelta(0, "generate_image", << "{" >>)
    /\ AllDeltas(stream)[2] = ToolDelta(0, "web_search", << >>)
    /\ AllDeltas(stream)[3] = ToolDelta(0, "", << "p", "}" >>)
    /\ collected_tool_calls[1].name = "web_search"

\* C8: fragments are grouped by index: every index seen has exactly one entry,
\* every entry belongs to an index seen, and the argument text of an entry is
\* the concatenation in arrival order of the pieces that carried its index.
C8_GroupedByIndex ==
    Aggregating =>
      /\ \A i \in Indices(AllDeltas(stream)) :
           Cardinality({ k \in 1..Len(collected_tool_calls) :
                           collected_tool_calls[k].id = i }) = 1
      /\ \A k \in 1..Len(collected_tool_calls) :
           /\ collected_tool_calls[k].id \in Indices(AllDeltas(stream))
           /\ collected_tool_calls[k].arguments
                = ArgsOf(AllDeltas(stream), collected_tool_calls[k].id)

\* C8 witness: the pieces of index 0 arrived around a piece of index 1.
C8_Witness ==
    /\ pc = "Dispatching"
    /\ IsOpenAI(llm_chat_model)
    /\ Len(AllDeltas(stream)) = 3
    /\ AllDeltas(stream)[1] = ToolDelta(0, "", << "{" >>)
    /\ AllDeltas(stream)[2] = ToolDelta(1, "", << "p" >>)
    /\ AllDeltas(stream)[3] = ToolDelta(0, "", << "p", "}" >>)
    /\ tool_calls[1].arguments = << "{", "p", "}" >>
    /\ tool_calls[2].arguments = << "p" >>

\* C9: a stream without tool-call fragments yields no invocation and the
\* concatenation of its text deltas, in either provider branch.
C9_TextOnlyStream ==
    (pc = "Dispatching" /\ AllDeltas(stream) = << >>)
    => /\ tool_calls = << >>
       /\ full_response = TextOf(stream)

\* C9 witness: the deltas "Hel" and "lo" gave "Hello" in the tool-enabled branch.
C9_Witness ==
    /\ pc = "Dispatching"
    /\ IsOpenAI(llm_chat_model)
    /\ stream = << TextChunk(<< "H", "e", "l" >>), TextChunk(<< "l", "o" >>) >>
    /\ full_response = << "H", "e", "l", "l", "o" >>
    /\ tool_calls = << >>

\* The text on display, without the cursor that follows it.
Displayed(shown) ==
    IF shown # << >> /\ shown[Len(shown)] = Cursor THEN SubSeq(shown, 1, Len(shown) - 1)
    ELSE shown

HasContent(st) == \E k \in 1..Len(st) : st[k].has_content

C10_Shown ==
    pc = "Streaming" =>
      /\ placeholder = IF HasContent(stream) THEN TextOf(stream) \o << Cursor >> ELSE << >>
      /\ IsPrefix(Displayed(placeholder), full_response)

C10_Step ==
    (pc = "Streaming" /\ pc' = "Streaming") =>
      /\ IsPrefix(Displayed(placeholder), Displayed(placeholder'))
      /\ ~stream'[Len(stream')].has_content => placeholder' = placeholder

\* C10: while streaming, the text on display is the concatenation of the text
\* deltas received so far, each display is a prefix of the next and of the
\* text being accumulated, and a chunk without text leaves the display alone.
C10_DisplayInArrivalOrder == [](C10_Shown) /\ [][C10_Step]_vars

\* C10 witness: "Hello" is on display after a tool-call fragment came between
\* its two deltas.
C10_Witness ==
    /\ pc = "Streaming"
    /\ Len(stream) = 3
    /\ stream[1].has_content
    /\ ~stream[2].has_content /\ stream[2].tool_calls # << >>
    /\ stream[3].has_content
    /\ Displayed(placeholder) = << "H", "e", "l", "l", "o" >>

\* C11: whenever no turn is being processed, every turn in the conversation has
\* non-empty content.
C11_EveryTurnHasContent ==
    pc = "Idle" => \A i \in 1..Len(messages) : messages[i].content # << >>

\* The image stripping of one turn: the image files move to the display images.
Stripped(before, after) ==
    /\ before.image_files # << >>
    /\ after = [ before EXCEPT !.image_files = << >>,
                               !.display_images = IF @ = << >> THEN before.image_files ELSE @ ]

\* A step that keeps the turns there are and at most appends; an existing turn
\* changes only by the image stripping, in the step that ends the processing.
C12_Kept ==
    /\ Len(messages') >= Len(messages)
    /\ \A i \in 1..Len(messages) :
         /\ messages'[i].role = messages[i].role
         /\ messages'[i].content = messages[i].content
         /\ messages'[i] # messages[i] =>
              /\ pc = "Cleanup" /\ pc' = "Idle"
              /\ Len(messages') = Len(messages)
              /\ Stripped(messages[i], messages'[i])
    /\ \A i \in 1..Len(messages') : pc' = "Idle" /\ ~thinking' => messages'[i].image_files = << >>

\* C12: between resets the conversation is append-only: every step other than
\* reset_chat keeps the existing turns in order with their role and content and
\* only appends; the one change to an existing turn is the image stripping,
\* applied in the step that ends the processing of the turn, after which the
\* turn has nothing left to strip.
C12_AppendOnly == [][ResetChat \/ C12_Kept]_vars

\* C12 witness: a user turn with an image was stripped after its answer, and a
\* later turn has been appended and answered behind it.
C12_Witness ==
    /\ pc = "Idle"
    /\ ~thinking
    /\ Len(messages) >= 4
    /\ messages[1].role = "user"
    /\ messages[1].display_images = ImageFiles
    /\ messages[1].image_files = << >>
    /\ messages[3].role = "user"
    /\ ~messages[3].is_system_message
    /\ messages[4].role = "assistant"

\* C13: once a turn has been processed, whether it succeeded or failed, no turn
\* carries image files; so the payload prepared for a turn holds images of the
\* user turn being answered only, and an image goes upstream in at most one turn.
C13_ImagesSentOnce ==
    /\ pc = "Idle" =>
         \A i \in 1..Len(messages) :
           messages[i].image_files # << >> => thinking /\ i = Len(messages)
    /\ pc # "Idle" =>
         /\ \A i \in 1..Len(messages) : messages[i].image_files # << >> => i = turn_base
         /\ \A k \in 1..Len(processed_messages) :
              processed_messages[k].images # << >> => k = turn_base + 1

\* C13 witness: the payload of the second turn carries the image of the second
\* user turn and not the image of the first, which is kept for display.
C13_Witness ==
    /\ pc = "Streaming"
    /\ turn_base = 3
    /\ messages[1].display_images = ImageFiles
    /\ messages[1].image_files = << >>
    /\ messages[3].image_files = ImageFiles
    /\ processed_messages[2].images = << >>
    /\ Len(processed_messages[4].images) = Len(ImageFiles)

\* What the document branch of process_llm_request can return.
GateAnswers == { DocumentAnswerText, NoDocumentsMessage, NotUnderstoodMessage }

\* C14: a turn processed in document mode never calls the provider, never
\* receives a stream, and neither collects nor dispatches a tool invocation; it
\* goes straight to the final step and, the document branch having returned,
\* appends one assistant turn whose text is what that branch returned.
C14_DocumentModeBypassesProvider ==
    (pc # "Idle" /\ document_mode) =>
      /\ pc \in { "Dispatching", "Cleanup" }
      /\ provider_calls = 0
      /\ stream = << >>
      /\ collected_tool_calls = << >>
      /\ tool_calls = << >>
      /\ executed = << >>
      /\ pc = "Dispatching" => full_response \in GateAnswers /\ Len(messages) = turn_base
      /\ pc = "Cleanup" =>
           /\ Len(messages) = turn_base + 1
           /\ messages[Len(messages)] = Turn("assistant", full_response)
           /\ ~raised => full_response \in GateAnswers

\* C14 witness: a question asked in document mode got the answer of the
\* retrieval query as its one assistant turn.
C14_Witness ==
    /\ pc = "Cleanup"
    /\ document_mode
    /\ gate_log = << "query" >>
    /\ provider_calls = 0
    /\ messages[turn_base].role = "user"
    /\ messages[Len(messages)] = Turn("assistant", DocumentAnswerText)

\* C15: document mode, once entered, stays active through every step but the
\* reset: turns, uploads, failed indexing, failed queries and settings changes
\* leave it on.
C15_DocumentModePersists == [][document_mode => (document_mode' \/ ResetChat)]_vars

\* C15 witness: document mode is still on after a second upload, an answer that
\* ended in the fallback apology and a change of language.
C15_Witness ==
    /\ document_mode
    /\ CanInteract
    /\ NumUploads(messages) = 2
    /\ \E i \in 1..Len(messages) : messages[i].content = FallbackApology
    /\ system_prompt = DocPrompt("Svenska")
    /\ language = "English"

\* C16: the retrieval index is cleared by every reset and by every upload of a
\* new document: after such a step there is no index.
C16_IndexInvalidated ==
    [][(ResetChat \/ NumUploads(messages') > NumUploads(messages)) => document_index' = << >>]_vars

\* Pending lists from which no index can be built: none, or unreadable ones only.
NothingToIndex == { << >>, << "x" >>, << "x", "x" >> }

\* C17: query_document with no index and nothing pending, or nothing readable
\* pending, or an index build that fails, returns the fixed no-documents
\* message without a retrieval query; the turn does not fall through to the
\* provider and its one assistant turn is that message.
C17_NoDocumentsNoQuery ==
    /\ \A pending \in NothingToIndex : \A svc_index, svc_query \in ServiceOutcomes :
         LET r == QueryDocument(<< >>, pending, FALSE, svc_index, svc_query)
         IN  /\ r.answer = NoDocumentsMessage
             /\ r.log = << "nobuild" >>
             /\ r.index = << >>
             /\ ~r.raised
    /\ (pc # "Idle" /\ \E k \in 1..Len(gate_log) : gate_log[k] = "nobuild") =>
         /\ gate_log = << "nobuild" >>
         /\ document_index = << >>
         /\ provider_calls = 0
         /\ stream = << >>
         /\ ~raised
         /\ full_response = NoDocumentsMessage
         /\ pc = "Cleanup" =>
              /\ Len(messages) = turn_base + 1
              /\ messages[Len(messages)] = Turn("assistant", NoDocumentsMessage)

\* C17 witness: a question in document mode met no index and one unreadable
\* pending document, and was answered with the no-documents message.
C17_Witness ==
    /\ pc = "Cleanup"
    /\ document_mode
    /\ gate_log = << "nobuild" >>
    /\ uploaded_documents = << "x" >>
    /\ document_index = << >>
    /\ messages[Len(messages)] = Turn("assistant", NoDocumentsMessage)

\* Pending lists with a readable document.
SomethingToIndex == { << "r" >>, << "r", "r" >>, << "x", "r" >>, << "r", "x" >> }

\* query_document with no index, a readable pending document and a working
\* indexing service: one index from all that can be read, nothing left pending.
C18_Function ==
    \A pending \in SomethingToIndex : \A svc_query \in ServiceOutcomes :
      LET r == QueryDocument(<< >>, pending, FALSE, "ok", svc_query)
      IN  /\ r.index = LoadAll(pending)
          /\ r.index # << >>
          /\ r.pending = << >>
          /\ r.log = << "build", "query" >>

C18_Built ==
    (pc # "Idle" /\ gate_log # << >> /\ gate_log[1] = "build") =>
      /\ document_index # << >>
      /\ uploaded_documents = << >>
      /\ document_mode

\* The step in which query_document runs, and the steps after an index exists.
C18_Step ==
    /\ (/\ pc = "Idle"
        /\ gate_log' # << >>
        /\ document_index = << >>
        /\ LoadAll(uploaded_documents) # << >>)
       => \/ /\ gate_log'[1] = "build"
             /\ document_index' = LoadAll(uploaded_documents)
             /\ uploaded_documents' = << >>
             /\ document_mode'
          \/ /\ gate_log' = << "nobuild" >>
             /\ document_index' = << >>
             /\ uploaded_documents' = uploaded_documents
    /\ (pc = "Idle" /\ gate_log' # << >> /\ document_index # << >>) =>
         /\ \A k \in 1..Len(gate_log') : gate_log'[k] = "query"
         /\ document_index' = document_index
    /\ (document_index # << >> /\ document_index' # document_index) => ResetChat

\* C18: query_document without an index and with a readable pending document
\* builds one index from all pending documents (unless the indexing raises),
\* leaves the pending list empty and document mode on; the index is then kept:
\* a later query uses it without building, and only a reset removes it.
C18_IndexBuiltOnceAndKept == [](C18_Function /\ C18_Built) /\ [][C18_Step]_vars

\* C18 witness: the indexing at upload failed, the first question made
\* query_document build the index, and this second question is answered from it.
C18_Witness ==
    /\ pc = "Cleanup"
    /\ document_mode
    /\ NumUploads(messages) = 1
    /\ original_user_question = UserText
    /\ gate_log = << "query" >>
    /\ document_index = << "r" >>
    /\ uploaded_documents = << >>
    /\ messages[Len(messages)] = Turn("assistant", DocumentAnswerText)

\* C19: the reset leaves exactly one turn, the assistant's greeting, document
\* mode off with no index and nothing pending, no image context, and the
\* default chat prompt of the language as the system prompt.
C19_ResetRestoresDefaults ==
    [][ResetChat =>
         /\ messages' = << Turn("assistant", Greeting) >>
         /\ ~document_mode'
         /\ document_index' = << >>
         /\ uploaded_documents' = << >>
         /\ last_image_prompt' = << >>
         /\ system_prompt' = ChatPrompt(language')]_vars

\* C19 witness: the state after a reset that was made in document mode with an
\* index in place and a second upload waiting.
C19_Witness ==
    /\ messages = << Turn("assistant", Greeting) >>
    /\ document_processing
    /\ ~document_mode
    /\ document_index = << >>
    /\ uploaded_documents = << >>
    /\ last_image_prompt = << >>
    /\ system_prompt = ChatPrompt(language)

\* What execute_web_search_tool returned, read off the record of its call.
SearchText(call) ==
    IF call.outcome = "ok" THEN SearchResult(language) ELSE SearchApology(language, call.outcome)

\* C20: a turn in which web_search was dispatched appends exactly one assistant
\* turn: the streamed text, when it is not blank, then a blank line and the text
\* the search returned; the text the search returned alone otherwise.
C20_SearchTurn ==
    (/\ pc = "Cleanup"
     /\ executed # << >>
     /\ executed[Len(executed)].name = "web_search")
    => /\ ~raised
       /\ Len(messages) = turn_base + 1
       /\ messages[Len(messages)].role = "assistant"
       /\ messages[Len(messages)].content =
            IF \E i \in 1..Len(full_response) : full_response[i] # " "
            THEN full_response \o << "\n\n" >> \o SearchText(executed[Len(executed)])
            ELSE SearchText(executed[Len(executed)])

\* C20 witness: text was streamed before the search, and the one appended turn
\* holds both.
C20_Witness ==
    /\ pc = "Cleanup"
    /\ Len(executed) = 1
    /\ executed[1].name = "web_search"
    /\ executed[1].outcome = "ok"
    /\ full_response = << "a" >>
    /\ Len(messages) = turn_base + 1
    /\ messages[Len(messages)].content = << "a", "\n\n" >> \o SearchResult(language)

\* The turn ended in a generated image.
ImageSucceeded ==
    /\ pc = "Cleanup"
    /\ executed # << >>
    /\ executed[Len(executed)] = [ name |-> "generate_image", outcome |-> "ok" ]

\* The prompt the image service was last called with in this turn.
PromptUsed == service_calls[Len(service_calls)].prompt

\* C21: a turn that ends in a successful generate_image appends first an assistant
\* turn whose display_images holds the image reference and whose content quotes the
\* effective prompt, then, only when the streamed text is not blank, a second
\* assistant turn with that text, and nothing else.
C21_ImageTurns ==
    ImageSucceeded =>
        /\ Len(messages) = turn_base + (IF IsBlank(full_response) THEN 1 ELSE 2)
        /\ messages[turn_base + 1].role = "assistant"
        /\ messages[turn_base + 1].display_images = << "<image_url>" >>
        /\ messages[turn_base + 1].content =
             << "I generated an image based on your request: \"" >> \o PromptUsed \o << "\"" >>
        /\ ~IsBlank(full_response) =>
             /\ messages[turn_base + 2].role = "assistant"
             /\ messages[turn_base + 2].content = full_response
             /\ messages[turn_base + 2].display_images = << >>

C21_Witness ==
    /\ ImageSucceeded
    /\ Len(messages) = turn_base + 2
    /\ messages[turn_base + 1].display_images # << >>
    /\ messages[turn_base + 2].content = << "a" >>

\* The stream ended and process_llm_request returned no tool invocation.
NoInvocation == pc = "Cleanup" /\ ~raised /\ tool_calls = << >>

\* C22: a turn whose stream yields no tool invocation appends exactly one turn,
\* an assistant turn whose content is the text process_llm_request returned.
C22_OneTextTurn ==
    NoInvocation =>
        /\ Len(messages) = turn_base + 1
        /\ messages[turn_base + 1] = Turn("assistant", full_response)
        /\ full_response = TextOf(stream)
        /\ executed = << >>

C22_Witness ==
    /\ NoInvocation
    /\ Len(stream) = 2
    /\ messages[Len(messages)].content = << "a", "a" >>

\* The turns stored when prepare_messages ran: the turn's answer comes after them.
Prepared == processed_messages # << >>

\* C23: prepare_messages returns one message more than there are stored turns:
\* first the system message with the system prompt, then, in the stored order, one
\* message per stored turn with that turn's role and text, the turns marked
\* is_system_message included.
C23_OnePerTurnInOrder ==
    Prepared =>
        /\ Len(processed_messages) = 1 + turn_base
        /\ processed_messages[1].role = "system"
        /\ processed_messages[1].content = system_prompt
        /\ \A i \in 1..turn_base :
             /\ processed_messages[i + 1].role = messages[i].role
             /\ processed_messages[i + 1].content = messages[i].content

C23_Witness ==
    /\ Prepared
    /\ turn_base >= 3
    /\ messages[1].is_system_message
    /\ processed_messages[2].content = messages[1].content
    /\ processed_messages[3].role = "assistant"
    /\ processed_messages[turn_base + 1].role = "user"

\* C24: the message prepared for a stored turn carries image segments exactly when
\* the turn is a user turn with image files and the selected model is one of the
\* vision-capable ones; it then has the turn's text and one data URL per image
\* file, in the order of the files. Every other message is the text alone.
C24_MultimodalExactlyForVision ==
    Prepared =>
        \A i \in 1..turn_base :
            LET vision == llm_chat_model \in { "OpenAI GPT-4.1", "OpenAI o4-mini", "Llama 4 Scout" }
                files == messages[i].image_files
                sent == processed_messages[i + 1]
            IN  /\ sent.images # << >> <=> (vision /\ messages[i].role = "user" /\ files # << >>)
                /\ sent.content = messages[i].content
                /\ sent.images # << >> =>
                     /\ Len(sent.images) = Len(files)
                     /\ \A k \in 1..Len(files) :
                          sent.images[k] = << "data:image/jpeg;base64,", "base64", files[k] >>

C24_Witness ==
    /\ Prepared
    /\ llm_chat_model = "OpenAI GPT-4.1"
    /\ turn_base >= 3
    /\ messages[turn_base].image_files = << "<image 1>", "<image 2>" >>
    /\ Len(processed_messages[turn_base + 1].images) = 2
    /\ processed_messages[turn_base + 1].images[2][3] = "<image 2>"
    /\ processed_messages[2].images = << >>

\* C25: process_text_only_messages keeps the length and the order of the list,
\* returns every text-only message as it is, returns for every multimodal message
\* a text message of the same role whose text is the message's text followed by
\* the fixed marker, and applied to its own result returns that result.
C25_TextOnlyIdempotent ==
    \A k \in 1..Len(service_calls) :
        LET input == processed_messages
            output == service_calls[k].messages
        IN  /\ Len(output) = Len(input)
            /\ \A i \in 1..Len(input) :
                 IF input[i].images = << >>
                 THEN output[i] = input[i]
                 ELSE /\ output[i].role = input[i].role
                      /\ output[i].images = << >>
                      /\ output[i].content =
                           input[i].content \o << " [Image description not supported by this model]" >>
            /\ output = service_calls[1].messages

C25_Witness ==
    /\ Len(service_calls) = 2
    /\ Len(processed_messages) = 4
    /\ processed_messages[2].images # << >>
    /\ processed_messages[3].images = << >>
    /\ processed_messages[4].images # << >>
    /\ service_calls[2].messages[4].images = << >>

\* The selected model is one of the models process_llm_request offers tools to.
ToolProvider == llm_chat_model \in { "OpenAI GPT-4.1", "OpenAI o4-mini" }

\* C26: the request to the provider carries the tool schemas exactly when the
\* selected model is an OpenAI model. With any other model a turn has no tool
\* invocation whatever the stream holds, the dispatch loop never runs and no tool
\* is executed, and the turn ends with exactly one appended assistant turn.
C26_ToolsOnlyForOpenAI ==
    /\ \A k \in 1..Len(service_calls) :
         service_calls[k].service = "chat.completions" =>
             /\ service_calls[k].tools <=> ToolProvider
             /\ service_calls[k].model = llm_chat_model
    /\ ~ToolProvider =>
         /\ collected_tool_calls = << >>
         /\ tool_calls = << >>
         /\ executed = << >>
         /\ Len(service_calls) <= 1
         /\ pc = "Cleanup" =>
              /\ Len(messages) = turn_base + 1
              /\ messages[turn_base + 1].role = "assistant"
              /\ messages[turn_base + 1].content = full_response

C26_Witness ==
    /\ ~ToolProvider
    /\ pc = "Cleanup"
    /\ ~raised
    /\ \E k \in 1..Len(stream) : stream[k].tool_calls # << >>
    /\ ~service_calls[1].tools
    /\ Len(messages) = turn_base + 1

GenerationSettings ==
    << llm_chat_model, llm_temperature, image_model, image_size, image_quality, system_prompt >>

\* The model selector and the widgets of render_settings.
SettingsAction ==
    \/ \E m \in Models : OnModelChange(m)
    \/ \E t \in Temperatures : SetTemperature(t)
    \/ SubmitSystemPrompt(CustomPrompt)
    \/ \E m \in ImageModels : SetImageModel(m)
    \/ \E q \in ImageQualities : SetImageQuality(q)

\* A reset: of the settings, only the system prompt, back to the chat prompt.
ResetOfPrompt ==
    /\ ResetChat
    /\ system_prompt' = ChatPrompt(language)
    /\ UNCHANGED << llm_chat_model, settings >>

\* An upload that saved a file: of the settings, only the system prompt, set to
\* the document prompt.
UploadOfPrompt ==
    /\ \E files \in DocInputs : \E ok \in SUBSET (1..Len(files)) : \E text \in UserTexts :
         ok # { } /\ HandleChatInputDocuments(files, ok, text)
    /\ system_prompt' = DocPrompt(language)
    /\ UNCHANGED << llm_chat_model, settings >>

\* C27 as stated: the settings change only in a settings action or in a reset
\* that restores the default system prompt; every other step (a user turn, an
\* upload, indexing, the steps of a turn, a tool) leaves all of them unchanged.
C27_OnlySettingsActions ==
    [][GenerationSettings' # GenerationSettings => SettingsAction \/ ResetOfPrompt]_vars

\* C27: the settings change only in a settings action, in a reset (the system
\* prompt goes back to the chat prompt) or in an upload that saved a file (the
\* system prompt becomes the document prompt); model, temperature and the image
\* settings change in settings actions alone, and a user turn, an upload that
\* saved nothing, indexing, the steps of a turn and a tool change none of them.
C27_SettingsActionsResetAndUpload ==
    [][GenerationSettings' # GenerationSettings =>
         SettingsAction \/ ResetOfPrompt \/ UploadOfPrompt]_vars

\* C27 witness: a document answer is being given with every setting as the user
\* last set it, under the document prompt the upload put in place.
C27_Witness ==
    /\ pc = "Cleanup"
    /\ document_mode
    /\ system_prompt = DocPrompt(language)
    /\ llm_chat_model = "Gemma2 9B"
    /\ llm_temperature = 2
    /\ image_model = "gpt-image-1"
    /\ image_quality = "high"

\* Whether the argument text of an invocation holds the member.
Names(call, member) == \E i \in 1..Len(call.arguments) : call.arguments[i] = member

\* The invocation the dispatch loop is at, and the request a step sends for it.
Invocation == tool_calls[tc_pos]

Sent == service_calls'[Len(service_calls')]

\* A step of the dispatch loop that calls the image service.
ImageServiceCalled ==
    /\ \E svc \in ServiceOutcomes : DispatchImage(svc)
    /\ Len(service_calls') = Len(service_calls) + 1

\* The size the invocation asks for: its size member, else the session's size.
SizeAsked ==
    IF Names(Invocation, "s512") THEN "512x512"
    ELSE IF Names(Invocation, "s1792") THEN "1792x1024"
    ELSE image_size

\* C28: with dall-e-2 as the image model, generate_image calls the image service
\* with the requested size when that is 256x256, 512x512 or 1024x1024 and with
\* 1024x1024 otherwise, and the tool succeeds whenever the service answers.
C28_Step ==
    ImageServiceCalled /\ image_model = "dall-e-2" =>
        /\ Sent.service = "images.generate"
        /\ Sent.model = "dall-e-2"
        /\ Sent.size = IF SizeAsked \in { "256x256", "512x512", "1024x1024" } THEN SizeAsked
                       ELSE "1024x1024"
        /\ DispatchImage("ok") => executed'[Len(executed')].outcome = "ok" /\ pc' = "Cleanup"

C28_SizeFallback == [][C28_Step]_vars

C28_Witness ==
    /\ ImageSucceeded
    /\ Names(tool_calls[tc_pos], "s1792")
    /\ service_calls[Len(service_calls)].model = "dall-e-2"
    /\ service_calls[Len(service_calls)].size = "1024x1024"

\* The image context exists only while the conversation holds a generated image.
C29_NoPriorAtStart ==
    last_image_prompt # << >> =>
        \E i \in 1..Len(messages) : messages[i].display_images = << "<image_url>" >>

C29_Step ==
    /\ ImageServiceCalled =>
         Sent.prompt = IF Names(Invocation, "m") /\ last_image_prompt # << >>
                       THEN << "Based on this previous idea: " >> \o last_image_prompt
                            \o << ", now " >> \o << "c" >>
                       ELSE << "c" >>
    /\ ResetChat => last_image_prompt' = << >>

C30_Step ==
    (\E svc \in ServiceOutcomes : DispatchImage(svc)) =>
        IF executed'[Len(executed')].outcome = "ok"
        THEN /\ ImageServiceCalled
             /\ last_image_prompt' = Sent.prompt
             /\ messages'[turn_base + 1].content =
                  << "I generated an image based on your request: \"" >> \o last_image_prompt'
                  \o << "\"" >>
        ELSE /\ last_image_prompt' = last_image_prompt
             /\ messages' = messages

C30_ImageContext == [][C30_Step]_vars

\* C30 witness: with the context of an earlier image in place, a modification
\* has failed in the image service and the context is still the earlier prompt.
C30_Witness ==
    /\ pc = "Dispatching"
    /\ executed # << >>
    /\ executed[Len(executed)] = [ name |-> "generate_image", outcome |-> "<image service error>" ]
    /\ Names(tool_calls[1], "m")
    /\ last_image_prompt = << "c" >>
    /\ service_calls[Len(service_calls)].prompt # last_image_prompt

\* The argument text is an object of known members.
WellFormed(call) ==
    /\ Len(call.arguments) >= 2
    /\ call.arguments[1] = "{"
    /\ call.arguments[Len(call.arguments)] = "}"
    /\ \A i \in 2..(Len(call.arguments) - 1) : call.arguments[i] \notin { "{", "}" }

\* C31: execute_image_generation_tool never lets an exception out: when the
\* arguments are not JSON, name no prompt, the image service fails or the image
\* model is none of the three, it shows the error message and returns no image
\* (the dispatch loop goes on, nothing is appended, the fallback of
\* generate_response is not entered); in every other case it returns the image.
C31_Step ==
    \A svc \in ServiceOutcomes :
        DispatchImage(svc) =>
            LET failure == \/ ~WellFormed(Invocation)
                           \/ ~Names(Invocation, "p")
                           \/ svc = "error"
                           \/ image_model \notin { "dall-e-2", "dall-e-3", "gpt-image-1" }
            IN  /\ ~raised'
                /\ IF failure
                   THEN /\ executed'[Len(executed')].outcome # "ok"
                        /\ placeholder' = << "<image_generation_error>" >>
                        /\ messages' = messages
                        /\ pc' = "Dispatching"
                        /\ tc_pos' = tc_pos + 1
                   ELSE /\ executed'[Len(executed')].outcome = "ok"
                        /\ messages'[turn_base + 1].display_images = << "<image_url>" >>

C31_ImageToolNeverRaises == [][C31_Step]_vars

\* C31 witness: under an image model without a branch, a well-formed invocation
\* has ended in the error message, without a call to the image service.
C31_Witness ==
    /\ pc = "Dispatching"
    /\ image_model = "<other image model>"
    /\ executed # << >>
    /\ executed[Len(executed)].name = "generate_image"
    /\ executed[Len(executed)].outcome # "ok"
    /\ WellFormed(tool_calls[1]) /\ Names(tool_calls[1], "p")
    /\ placeholder = << "<image_generation_error>" >>
    /\ Len(service_calls) = 1
    /\ ~raised

\* The turn ended in a web search; Searched is its record, Returned the text the
\* tool returned, which follows the streamed text in the appended turn.
SearchDone ==
    /\ pc = "Cleanup"
    /\ executed # << >>
    /\ executed[Len(executed)].name = "web_search"

Searched == executed[Len(executed)]

Returned ==
    LET content == messages[Len(messages)].content
    IN  IF IsBlank(full_response) THEN content
        ELSE SubSeq(content, Len(full_response) + 2, Len(content))

\* The number of results the tool cites.
Cited == IF Len(Searched.response.results) < 5 THEN Len(Searched.response.results) ELSE 5

\* The search has failed: in the arguments, in the service, or at a cited result.
SearchFailure ==
    \/ ~WellFormed(tool_calls[tc_pos])
    \/ ~Names(tool_calls[tc_pos], "q")
    \/ Searched.response.raises
    \/ \E i \in 1..Cited : Searched.response.results[i].keys # { "title", "url" }

\* C32: execute_web_search_tool never lets an exception out: when the arguments
\* are not JSON, name no query, the search service fails or a cited result lacks
\* its title or url, it returns the apology of the session's language with the
\* error text inside, and the turn ends as a search turn, not in the fallback.
C32_SearchToolNeverRaises ==
    SearchDone =>
        /\ ~raised
        /\ Len(messages) = turn_base + 1
        /\ SearchFailure <=> Searched.outcome # "ok"
        /\ SearchFailure =>
             /\ Len(Returned) = 3
             /\ Returned[1] = IF language = "Svenska"
                              THEN "Jag stotte pa ett fel nar jag forsokte soka pa webben: "
                              ELSE "I encountered an error while trying to search the web: "
             /\ Returned[2] = Searched.outcome
             /\ Returned[2] \in { "<json error>", "'query'", "<search service error>",
                                  "'title'", "'url'" }

C32_Witness ==
    /\ SearchDone
    /\ language = "English"
    /\ ~Searched.response.raises
    /\ Len(Searched.response.results) = 6
    /\ Searched.outcome = "'url'"
    /\ Returned[1] = "I encountered an error while trying to search the web: "

\* C33: the text of a successful search is the heading with the query, then the
\* answer exactly when the service returned a non-empty one, then the sources
\* label, then min(5, n) citations for the n results of the service, numbered
\* from 1 in the service's order, each with the title and the url of its result.
C33_Citations ==
    SearchDone /\ ~SearchFailure =>
        LET response == Searched.response
            label == 4 + Len(response.answer)
        IN  /\ Len(Returned) = label + 6 * Cited
            /\ Returned[1] = IF language = "Svenska" THEN "**Sokresultat:** '"
                             ELSE "**Search Results:** '"
            /\ Returned[2] = "w"
            /\ SubSeq(Returned, 4, label - 1) = response.answer
            /\ Returned[label] = IF language = "Svenska" THEN "**Kallor:**" ELSE "**Sources:**"
            /\ \A k \in 1..Cited :
                 SubSeq(Returned, label + 6 * (k - 1) + 1, label + 6 * k) =
                     << << "1", "2", "3", "4", "5" >>[k], ". [", response.results[k].title,
                        "](", response.results[k].url, ")" >>

C33_Witness ==
    /\ SearchDone
    /\ ~SearchFailure
    /\ Len(Searched.response.results) = 6
    /\ Searched.response.answer # << >>
    /\ Len(Returned) = 35
    /\ Returned[4] = "<answer>"
    /\ Returned[34] = "u5"

\* The queries sent to the search service in this turn.
SearchQueries ==
    { service_calls[k].query : k \in { j \in 1..Len(service_calls) :
                                          service_calls[j].service = "search" } }

\* C34 as stated: the query is sent with the language instruction exactly when
\* the language is not Svenska, the language of a new session.
C34_RewrittenForNonDefault ==
    \A query \in SearchQueries :
        query = IF language # "Svenska" THEN << "w", " (answer in Swedish)" >> ELSE << "w" >>

\* C34: the query is sent with the instruction to answer in Swedish exactly when
\* the language is Svenska, the language of a new session; in English the
\* query of the model is sent unchanged.
C34_RewrittenForSvenska ==
    \A query \in SearchQueries :
        query = IF language = "Svenska" THEN << "w", " (answer in Swedish)" >> ELSE << "w" >>

C34_Witness ==
    /\ SearchDone
    /\ language = "English"
    /\ SearchQueries = { << "w" >> }
    /\ Searched.outcome = "ok"

\* The assistant turns that follow the turn at position i, up to the next user turn.
RECURSIVE Answers(_, _)
Answers(msgs, i) ==
    IF i >= Len(msgs) \/ msgs[i + 1].role # "assistant" THEN 0
    ELSE 1 + Answers(msgs, i + 1)

\* No response is pending or in flight.
Settled == pc = "Idle" /\ ~thinking

C35_Once ==
    /\ pc # "Idle" => ~thinking /\ provider_calls = 1
    /\ pc = "Cleanup" => Len(messages) - turn_base \in { 1, 2 }
    /\ \A i \in 1..Len(messages) :
         messages[i].role = "user" =>
             IF i < Len(messages) \/ Settled
             THEN Answers(messages, i) \in { 1, 2 }
             ELSE Answers(messages, i) = 0

C35_Step ==
    /\ thinking /\ ~thinking' => pc = "Idle" /\ pc' \in { "Streaming", "Cleanup" }
    /\ pc = "Idle" /\ pc' # "Idle" => thinking /\ turn_base' = Len(messages)
    /\ pc = "Cleanup" /\ pc' = "Idle" => ~thinking' /\ Len(messages') = Len(messages)

RECURSIVE FirstArrival(_, _)
FirstArrival(ds, seen) ==
    IF ds = << >> THEN << >>
    ELSE IF Head(ds).index \in seen THEN FirstArrival(Tail(ds), seen)
    ELSE << Head(ds).index >> \o FirstArrival(Tail(ds), seen \cup { Head(ds).index })

\* C38: the list of invocations process_llm_request returns has one entry per
\* index seen in the stream, in the order in which the indices first arrived,
\* whatever their numeric order; the first entry, which the dispatch loop takes
\* first, is the invocation whose first fragment arrived earliest.
C38_OrderOfFirstArrival ==
    pc = "Dispatching" /\ IsOpenAI(llm_chat_model) =>
        LET ds == AllDeltas(stream)
            order == FirstArrival(ds, { })
        IN  /\ Len(tool_calls) = Len(order)
            /\ Len(order) = Cardinality(Indices(ds))
            /\ \A k \in 1..Len(order) :
                 /\ tool_calls[k].name = LastName(ds, order[k])
                 /\ tool_calls[k].arguments = ArgsOf(ds, order[k])
            /\ tool_calls # << >> => tc_pos = 1 /\ Head(ds).index = order[1]

C38_Witness ==
    /\ pc = "Dispatching"
    /\ IsOpenAI(llm_chat_model)
    /\ Len(AllDeltas(stream)) = 3
    /\ AllDeltas(stream)[1] = ToolDelta(1, "web_search", << >>)
    /\ AllDeltas(stream)[2] = ToolDelta(0, "generate_image", << >>)
    /\ AllDeltas(stream)[3] = ToolDelta(1, "", << "{" >>)
    /\ tool_calls = << [ name |-> "web_search", arguments |-> << "{" >> ],
                       [ name |-> "generate_image", arguments |-> << >> ] >>

\* C36: once an upload has set document_processing, the flag returns to false
\* (and with it the chat input is enabled again), whatever the index held when
\* the files were uploaded.
C36_ProcessingFinishes == document_processing ~> ~document_processing

\* the question typed with an upload is the last turn of the history, asked in
\* document mode with the pending-response flag set
QuestionAsked ==
    /\ messages # << >>
    /\ messages[Len(messages)] = Turn("user", UserText)
    /\ thinking
    /\ document_mode
    /\ original_user_question = << >>

\* the run that was to build the index ended without one
IndexingFailed == ~document_processing /\ document_index = << >>

\* C37: a question held in original_user_question while the documents are
\* indexed is then appended as a user turn with the pending-response flag set,
\* in document mode, unless no index could be built.
C37_QuestionPreserved ==
    (document_processing /\ original_user_question # << >>) ~> (QuestionAsked \/ IndexingFailed)

\* The number of document-mode notifications in the history.
NumNotifications(msgs) ==
    Cardinality({ i \in 1..Len(msgs) :
                    msgs[i].role = "assistant" /\ msgs[i].content = DocumentModeNotification })

\* C39: the history holds one document-mode notification per hidden upload turn.
C39_OneNotificationPerUpload == NumNotifications(messages) = NumUploads(messages)

====
